---- MODULE Spec2Model ----
(***************************************************************************)
(* Model of the wallet-tracking query engine (TypeScript tools under       *)
(* ts/src): the retry wrapper (utils.ts retryOperation), the timestamp     *)
(* binary search and the `find` command (block-finder.ts), and the batched *)
(* native-transfer scan (eth-transfers.ts).                                *)
(***************************************************************************)
EXTENDS Integers, Sequences, FiniteSets, TLC

(***************************************************************************)
(* JavaScript numbers.  The values the code handles (block heights up to   *)
(* 2^51, the literal 9999999999) exceed the 32-bit integers of the model   *)
(* checker, so a JS integer n is the pair <<hi, lo>> with                  *)
(* n = hi * Base + lo and 0 <= lo < Base (hi carries the sign).  All the   *)
(* integers used are below 2^53, where JS arithmetic is exact.             *)
(***************************************************************************)
Base == 10^7

Small(n) == <<n \div Base, n % Base>>

NaN == <<0, -1>>

IsNaN(a) == a[2] < 0

\* JS comparison operators: every comparison with NaN is false
NumLt(a, b) ==
    /\ ~IsNaN(a)
    /\ ~IsNaN(b)
    /\ (a[1] < b[1] \/ (a[1] = b[1] /\ a[2] < b[2]))

NumGt(a, b) == NumLt(b, a)

NumLe(a, b) ==
    /\ ~IsNaN(a)
    /\ ~IsNaN(b)
    /\ (a[1] < b[1] \/ (a[1] = b[1] /\ a[2] <= b[2]))

NumGe(a, b) == NumLe(b, a)

NumAdd(a, b) ==
    IF IsNaN(a) \/ IsNaN(b) THEN NaN
    ELSE LET s == a[2] + b[2] IN <<a[1] + b[1] + (s \div Base), s % Base>>

NumSub(a, b) ==
    IF IsNaN(a) \/ IsNaN(b) THEN NaN
    ELSE LET d == a[2] - b[2] IN <<a[1] - b[1] + (d \div Base), d % Base>>

\* a * k for a small non-negative integer k
NumTimes(a, k) ==
    IF IsNaN(a) THEN NaN
    ELSE LET p == a[2] * k IN <<a[1] * k + (p \div Base), p % Base>>

\* Math.floor(a / 2)
FloorHalf(a) ==
    IF IsNaN(a) THEN NaN
    ELSE LET r == (a[1] % 2) * Base + a[2] IN <<a[1] \div 2, r \div 2>>

RECURSIVE Pow2(_)
Pow2(k) == IF k <= 20 THEN Small(2^k) ELSE NumTimes(Pow2(k - 7), 2^7)

NumMax(a, b) == IF NumLt(a, b) THEN b ELSE a

NumMin(a, b) == IF NumLt(b, a) THEN b ELSE a

\* a small JS integer as a model integer
NumToInt(a) == a[1] * Base + a[2]

(***************************************************************************)
(* parseInt(string) on a command-line option.  A string is a sequence of   *)
(* one-character strings.                                                  *)
(***************************************************************************)
DecDigits == <<"0", "1", "2", "3", "4", "5", "6", "7", "8", "9">>

HexDigits == DecDigits \o <<"a", "b", "c", "d", "e", "f">>

DigitsOf(radix) == IF radix = 16 THEN HexDigits ELSE DecDigits

IsDigit(c, radix) == \E d \in 1..Len(DigitsOf(radix)) : DigitsOf(radix)[d] = c

DigitVal(c, radix) == (CHOOSE d \in 1..Len(DigitsOf(radix)) : DigitsOf(radix)[d] = c) - 1

RECURSIVE SkipSpaces(_)
SkipSpaces(s) == IF s # <<>> /\ Head(s) = " " THEN SkipSpaces(Tail(s)) ELSE s

\* the value of the longest digit prefix of s, given the digits read so far
RECURSIVE ParseDigits(_, _, _, _)
ParseDigits(s, radix, acc, any) ==
    IF s # <<>> /\ IsDigit(Head(s), radix)
    THEN ParseDigits(Tail(s), radix,
                     NumAdd(NumTimes(acc, radix), Small(DigitVal(Head(s), radix))), TRUE)
    ELSE IF any THEN acc ELSE NaN

parseInt(str) ==
    LET s0   == SkipSpaces(str)
        neg  == s0 # <<>> /\ Head(s0) = "-"
        s1   == IF s0 # <<>> /\ Head(s0) \in {"-", "+"} THEN Tail(s0) ELSE s0
        hex  == Len(s1) >= 2 /\ s1[1] = "0" /\ s1[2] \in {"x", "X"}
        s2   == IF hex THEN Tail(Tail(s1)) ELSE s1
        mag  == ParseDigits(s2, IF hex THEN 16 ELSE 10, Small(0), FALSE)
    IN  IF IsNaN(mag) THEN NaN
        ELSE IF neg THEN NumSub(Small(0), mag) ELSE mag

(***************************************************************************)
(* utils.ts                                                                *)
(***************************************************************************)
\* isValidTimestamp: timestamp > 1420000000 && timestamp < 9999999999
MinTimestamp == Small(1420000000)

MaxTimestamp == <<999, 9999999>>

isValidTimestampInclusive(timestamp) ==
    NumGe(timestamp, MinTimestamp) /\ NumLe(timestamp, MaxTimestamp)

isValidTimestamp(timestamp) ==
    NumGt(timestamp, MinTimestamp) /\ NumLt(timestamp, MaxTimestamp)


Null == [kind |-> "null"]

DefaultMaxRetries == 3

DefaultDelay == 1000

\* `throw new Error('Max retries exceeded')`, after the loop
MaxRetriesExceeded == [kind |-> "error", msg |-> "Max retries exceeded", attempt |-> 0]

\* the state of one retryOperation call that has not been made; trace is the
\* observed history of the call: the operation's outcomes and the sleeps
NoRetry ==
    [op |-> "none", arg |-> Null, maxRetries |-> 0, delay |-> 0, i |-> 0,
     phase |-> "none", value |-> Null, error |-> Null, trace |-> <<>>]

\* `for (let i = 0; i < maxRetries; i++)`: entry of retryOperation
retryOperation(op, arg, maxRetries, delay) ==
    [op |-> op, arg |-> arg, maxRetries |-> maxRetries, delay |-> delay, i |-> 0,
     phase |-> IF 0 < maxRetries THEN "call" ELSE "thrown",
     value |-> Null,
     error |-> IF 0 < maxRetries THEN Null ELSE MaxRetriesExceeded,
     trace |-> <<>>]

IsLastAttemptOffByOne(i, maxRetries) == i = maxRetries

\* `if (i === maxRetries - 1) throw error`
IsLastAttempt(i, maxRetries) == i = maxRetries - 1

\* `return await operation()` and its catch clause: one attempt with outcome out
retryAttempt(r, out) ==
    LET r1 == [r EXCEPT !.trace = Append(@, [ev |-> "call", out |-> out])] IN
    IF out.kind = "return"
    THEN [r1 EXCEPT !.phase = "returned", !.value = out.value]
    ELSE IF IsLastAttempt(r.i, r.maxRetries)
         THEN [r1 EXCEPT !.phase = "thrown", !.error = out.error]
         ELSE [r1 EXCEPT !.phase = "sleep"]

retrySleepBackoff(r) ==
    LET r1 == [r EXCEPT !.trace = Append(@, [ev |-> "sleep", ms |-> r.delay * (r.i + 1)]),
                        !.i = @ + 1] IN
    IF r1.i < r1.maxRetries
    THEN [r1 EXCEPT !.phase = "call"]
    ELSE [r1 EXCEPT !.phase = "thrown", !.error = MaxRetriesExceeded]

\* `await new Promise(resolve => setTimeout(resolve, delay))`, then i++ and the loop test
retrySleep(r) ==
    LET r1 == [r EXCEPT !.trace = Append(@, [ev |-> "sleep", ms |-> r.delay]), !.i = @ + 1] IN
    IF r1.i < r1.maxRetries
    THEN [r1 EXCEPT !.phase = "call"]
    ELSE [r1 EXCEPT !.phase = "thrown", !.error = MaxRetriesExceeded]

RetryDone(r) == r.phase \in {"returned", "thrown"}

\* the await of a retry-wrapped call yields a usable (non-null) value
RetryGaveValue(r) == r.phase = "returned" /\ r.value # Null

(***************************************************************************)
(* The chain served by the RPC provider.  A chain is its head height and a *)
(* timestamp function given piecewise: segs[k] gives the timestamp of the  *)
(* blocks from segs[k].start up to the next segment's start (or the head). *)
(***************************************************************************)
SegOf(c, b) ==
    CHOOSE k \in 1..Len(c.segs) :
        /\ NumLe(c.segs[k].start, b)
        /\ (k = Len(c.segs) \/ NumLt(b, c.segs[k + 1].start))

TimestampOf(c, b) == c.segs[SegOf(c, b)].ts

SegEnd(c, k) ==
    IF k = Len(c.segs) THEN c.head ELSE NumSub(c.segs[k + 1].start, Small(1))

\* the Block object provider.getBlock(b) resolves to
BlockAt(c, b) ==
    [kind |-> "block", number |-> b, timestamp |-> TimestampOf(c, b), hash |-> <<"hash", b>>]

Monotone(c) ==
    \A k \in 1..(Len(c.segs) - 1) : NumLe(c.segs[k].ts, c.segs[k + 1].ts)

\* the heights b in [lo, hi] that open a run of blocks with timestamp >= t
Candidates(c, t, lo, hi) ==
    { NumMax(c.segs[k].start, lo) : k \in
        { j \in 1..Len(c.segs) :
            /\ NumGe(c.segs[j].ts, t)
            /\ NumLe(NumMax(c.segs[j].start, lo), NumMin(SegEnd(c, j), hi)) } }

\* the lowest height in [lo, hi] whose block has timestamp >= t (Null if none)
LowestAtOrAfter(c, t, lo, hi) ==
    LET cs == Candidates(c, t, lo, hi) IN
    IF cs = {} THEN Null
    ELSE BlockAt(c, CHOOSE b \in cs : \A d \in cs : NumLe(b, d))


(***************************************************************************)
(* config.ts                                                               *)
(***************************************************************************)
\* An address string is its 40 hex digits (hex, letters in lower case) and the
\* capitalisation of its letters (case); "" is the absent option.
Addr(hex, case) == [hex |-> hex, case |-> case]

NoAddress == Addr("", "lower")

Vitalik == "d8da6bf26964af9d7eed9e03e53415d37aa96045"

Binance == "3f5ce5fbfe3e9af3971dd833d26ba9b5c936f0be"

Coinbase == "71660c4005ba85c37ccec55d0c4493e66fe775d3"

Usdc == "a0b86a33e6441b8c4c8c0d4b0c8b0c8b0c8b0c8b"

\* the 20-byte hex strings of the model
Hex20 == {Vitalik, Binance, Coinbase, Usdc}

\* String.prototype.toLowerCase on an address string
toLowerCase(a) == [a EXCEPT !.case = "lower"]

\* isValidAddress: ethers.getAddress(address) does not throw, that is, the
\* string is 20 bytes of hex, in one case or with a correct mixed-case checksum
isValidAddress(address) ==
    address.hex \in Hex20 /\ address.case \in {"lower", "upper", "checksum"}

\* isValidBlockNumber without the sign test
isValidBlockNumberAnySign(num) == ~IsNaN(num)

\* isValidBlockNumber(blockNumber: number): !isNaN(num) && num >= 0
isValidBlockNumber(num) == ~IsNaN(num) /\ NumGe(num, Small(0))

(***************************************************************************)
(* Amounts in wei (bigint): <<eth, gwei, wei>> stands for                  *)
(* eth * 10^18 + gwei * 10^9 + wei, with gwei and wei below 10^9.          *)
(***************************************************************************)
Giga == 10^9

Wei(e, g, w) == <<e, g, w>>

ZeroWei == Wei(0, 0, 0)

WeiLt(a, b) ==
    \/ a[1] < b[1]
    \/ a[1] = b[1] /\ a[2] < b[2]
    \/ a[1] = b[1] /\ a[2] = b[2] /\ a[3] < b[3]

WeiAdd(a, b) ==
    LET w == a[3] + b[3]
        g == a[2] + b[2] + (w \div Giga)
    IN  <<a[1] + b[1] + (g \div Giga), g % Giga, w % Giga>>

\* the nine decimal digits of a limb
Pad9(n) == [k \in 1..9 |-> DecDigits[((n \div (10 ^ (9 - k))) % 10) + 1]]

RECURSIVE StripLeadingZeros(_)
StripLeadingZeros(cs) ==
    IF Len(cs) > 1 /\ Head(cs) = "0" THEN StripLeadingZeros(Tail(cs)) ELSE cs

\* BigInt.prototype.toString of a non-negative amount
WeiToString(a) == StripLeadingZeros(Pad9(a[1]) \o Pad9(a[2]) \o Pad9(a[3]))

(***************************************************************************)
(* parseFloat, Number.prototype.toString and ethers.parseEther on the      *)
(* decimal strings of --min-value.  A float is [nan, neg, int, frac] with  *)
(* frac the digits after the point, trailing zeros dropped.                *)
(***************************************************************************)
FloatNaN == [nan |-> TRUE, neg |-> FALSE, int |-> 0, frac |-> <<>>]

\* the longest prefix of s made of decimal digits, as digit values
RECURSIVE DigitRun(_)
DigitRun(s) ==
    IF s # <<>> /\ IsDigit(Head(s), 10)
    THEN <<DigitVal(Head(s), 10)>> \o DigitRun(Tail(s))
    ELSE <<>>

RECURSIVE DigitsToInt(_)
DigitsToInt(ds) ==
    IF ds = <<>> THEN 0 ELSE DigitsToInt(SubSeq(ds, 1, Len(ds) - 1)) * 10 + ds[Len(ds)]

RECURSIVE DropTrailingZeros(_)
DropTrailingZeros(ds) ==
    IF ds # <<>> /\ ds[Len(ds)] = 0 THEN DropTrailingZeros(SubSeq(ds, 1, Len(ds) - 1)) ELSE ds

Drop(s, n) == SubSeq(s, n + 1, Len(s))

parseFloat(str) ==
    LET s0    == SkipSpaces(str)
        neg   == s0 # <<>> /\ Head(s0) = "-"
        s1    == IF s0 # <<>> /\ Head(s0) \in {"-", "+"} THEN Tail(s0) ELSE s0
        ip    == DigitRun(s1)
        s2    == Drop(s1, Len(ip))
        fp    == IF s2 # <<>> /\ Head(s2) = "." THEN DigitRun(Tail(s2)) ELSE <<>>
    IN  IF ip = <<>> /\ fp = <<>> THEN FloatNaN
        ELSE [nan |-> FALSE, neg |-> neg, int |-> DigitsToInt(ip), frac |-> DropTrailingZeros(fp)]

\* `minValueEth < 0`
FloatNegative(f) == ~f.nan /\ f.neg /\ (f.int # 0 \/ f.frac # <<>>)

RECURSIVE IntChars(_)
IntChars(n) ==
    IF n < 10 THEN <<DecDigits[n + 1]>> ELSE IntChars(n \div 10) \o <<DecDigits[(n % 10) + 1]>>

\* minValueEth.toString()
FloatToString(f) ==
    IF f.nan THEN <<"N", "a", "N">>
    ELSE (IF FloatNegative(f) THEN <<"-">> ELSE <<>>)
         \o IntChars(f.int)
         \o (IF f.frac = <<>> THEN <<>>
             ELSE <<".">> \o [k \in 1..Len(f.frac) |-> DecDigits[f.frac[k] + 1]])

\* ethers.parseEther(string): the amount in wei, or Null where it throws (not a
\* decimal number, or more than 18 decimals)
parseEther(str) ==
    LET neg == str # <<>> /\ Head(str) = "-"
        s1  == IF neg THEN Tail(str) ELSE str
        ip  == DigitRun(s1)
        s2  == Drop(s1, Len(ip))
        dot == s2 # <<>> /\ Head(s2) = "."
        fp  == IF dot THEN DigitRun(Tail(s2)) ELSE <<>>
        s3  == IF dot THEN Drop(s2, 1 + Len(fp)) ELSE s2
        pad == fp \o [k \in 1..(18 - Len(fp)) |-> 0]
        sgn == IF neg THEN -1 ELSE 1
    IN  IF s3 # <<>> \/ (ip = <<>> /\ fp = <<>>) \/ Len(fp) > 18 THEN Null
        ELSE [kind |-> "wei",
              wei |-> Wei(sgn * DigitsToInt(ip), sgn * DigitsToInt(SubSeq(pad, 1, 9)),
                          sgn * DigitsToInt(SubSeq(pad, 10, 18)))]

(***************************************************************************)
(* processBlock (eth-transfers.ts)                                         *)
(***************************************************************************)
\* the transaction passes the checks of the loop body, in the order of the code
KeepsTransactionNoZeroCheck(tx, opts, minValueWei) ==
    /\ tx.to # Null /\ tx.to # NoAddress
    /\ ~WeiLt(tx.value, minValueWei)
    /\ opts.from # NoAddress => toLowerCase(tx.from) = toLowerCase(opts.from)
    /\ opts.to # NoAddress => toLowerCase(tx.to) = toLowerCase(opts.to)

\* the address filters compared without toLowerCase()
KeepsTransactionCaseSensitive(tx, opts, minValueWei) ==
    /\ tx.to # Null /\ tx.to # NoAddress
    /\ tx.value # ZeroWei
    /\ ~WeiLt(tx.value, minValueWei)
    /\ opts.from # NoAddress => tx.from = opts.from
    /\ opts.to # NoAddress => tx.to = opts.to

KeepsTransaction(tx, opts, minValueWei) ==
    /\ tx.to # Null /\ tx.to # NoAddress
    /\ tx.value # ZeroWei
    /\ ~WeiLt(tx.value, minValueWei)
    /\ opts.from # NoAddress => toLowerCase(tx.from) = toLowerCase(opts.from)
    /\ opts.to # NoAddress => toLowerCase(tx.to) = toLowerCase(opts.to)

\* the EthTransfer built from a transaction
EthTransfer(tx, blockNumber) ==
    [from |-> tx.from, to |-> tx.to, value |-> WeiToString(tx.value),
     blockNumber |-> blockNumber,
     transactionHash |-> tx.hash, gasUsed |-> tx.gasLimit,
     gasPrice |-> IF tx.gasPrice = Null THEN 0 ELSE tx.gasPrice.n]

\* the loop over block.transactions: the transfers kept, in transaction order
RECURSIVE TransfersOf(_, _, _, _)
TransfersOf(txs, blockNumber, opts, minValueWei) ==
    IF txs = <<>> THEN <<>>
    ELSE (IF KeepsTransaction(Head(txs), opts, minValueWei)
          THEN <<EthTransfer(Head(txs), blockNumber)>>
          ELSE <<>>)
         \o TransfersOf(Tail(txs), blockNumber, opts, minValueWei)

ProcessBlockRethrows(r, blockNumber, opts, minValueWei) ==
    IF r.phase = "thrown" THEN [state |-> "rejected", transfers |-> <<>>]
    ELSE IF r.value = Null THEN [state |-> "fulfilled", transfers |-> <<>>]
    ELSE [state |-> "fulfilled",
          transfers |-> TransfersOf(r.value.transactions, blockNumber, opts, minValueWei)]

\* what the promise of processBlock settles to once its fetch r is done: the
\* catch clause and the missing block both give []
processBlock(r, blockNumber, opts, minValueWei) ==
    IF r.phase = "thrown" THEN [state |-> "fulfilled", transfers |-> <<>>]
    ELSE IF r.value = Null THEN [state |-> "fulfilled", transfers |-> <<>>]
    ELSE [state |-> "fulfilled",
          transfers |-> TransfersOf(r.value.transactions, blockNumber, opts, minValueWei)]

(***************************************************************************)
(* State                                                                   *)
(***************************************************************************)
VARIABLES
    pc,               \* position of the running command
    chain,            \* the chain the provider serves
    retry,            \* the retryOperation call in progress (sequential code)
    rpcCalls,         \* number of RPC requests issued by this invocation
    options,          \* the command-line options of the `find` command
    targetTimestamp,  \* findBlockByTimestamp: parameters and locals
    low,
    high,
    mid,
    result,
    iterations,
    probes,           \* number of midpoint fetches started by this invocation
    searchError,      \* the catch clause of the search loop ran
    range,            \* [low, high] as passed to findBlockByTimestamp
    caller,           \* who awaits findBlockByTimestamp
    currentBlock,     \* `find`: the latest block
    reported,         \* `find`: the block printed under === RESULT ===
    saved,            \* `find`: the data handed to saveToJson
    exitCode,         \* -1 while running, then the process exit status
    startBlock,       \* eth-transfers `fetch`: locals of the action
    endBlock,
    minValueWei,
    batchBlock,       \* the loop variable currentBlock of the batch loop
    blockPromises,    \* the promises of the batch in progress
    ethTransfers,
    processedBlocks,
    csv,              \* the rows handed to saveToCsv
    issued,           \* heights whose fetch has been started
    settleOrder,      \* heights whose processBlock promise has settled, in order
    failedBlocks,     \* heights whose fetch threw after the retries or gave null
    faults,           \* number of RPC failures so far in this scan
    logs,             \* transfer-events: the logs getLogs returned (Null before)
    logPos,           \* number of logs the log loop has gone through
    transferEvents,
    metaLog,          \* per decoded log, which of symbol() and decimals() failed
    topTokens,
    jsonSaved,        \* the data handed to saveToJson by a scan
    data,             \* analyze: the rows parsed from the CSV file
    topN,
    tokenStats,       \* Maps, as the sequence of their entries in insertion order
    sortedTokens,
    addressStats,
    sortedAddresses,
    run,              \* 1 in the first invocation of a scan, 2 in a repeated one
    firstOutput,      \* the event sequence of the first invocation
    interval,         \* balance history: parameters and locals of the block loop
    block,
    blockInfo,
    balance,
    balanceHistory,
    visited,          \* the blocks the loop body was entered with, in order
    resultBlock       \* what findBlockAfterTimestamp of the Solidity script gave

retryVars == <<retry, rpcCalls>>

searchVars ==
    <<targetTimestamp, low, high, mid, result, iterations, probes, searchError, range, caller>>

findVars == <<options, currentBlock, reported, saved, exitCode>>

fetchVars ==
    <<startBlock, endBlock, minValueWei, batchBlock, blockPromises, ethTransfers,
      processedBlocks, csv, issued, settleOrder, failedBlocks, faults>>

eventVars == <<logs, logPos, transferEvents, metaLog, topTokens, jsonSaved>>

analyzeVars == <<data, topN, tokenStats, sortedTokens, addressStats, sortedAddresses>>

rerunVars == <<run, firstOutput>>

historyVars == <<interval, block, blockInfo, balance, balanceHistory, visited>>

solidityVars == <<resultBlock>>

otherVars == <<eventVars, analyzeVars, rerunVars, historyVars, solidityVars>>

vars == <<pc, chain, retryVars, searchVars, findVars, fetchVars, otherVars>>

(***************************************************************************)
(* The RPC provider: what one call of the wrapped operation can do.        *)
(***************************************************************************)
ErrorKinds == {"timeout"}

\* a 32-byte topic word; Null in a filter matches any word
Topic(w) == [word |-> w]

\* the signature of Transfer(address,address,uint256)
TransferTopic == Topic("ddf252ad1be2c89b69c2b068fc378daa952ba7f163c4a11628f55a4df523b3ef")

\* eth_getLogs: the log lies in [fromBlock, toBlock], was emitted by the
\* filter's address if there is one, and carries every topic the filter fixes
MatchesFilter(log, f) ==
    /\ NumGe(log.blockNumber, f.fromBlock)
    /\ NumLe(log.blockNumber, f.toBlock)
    /\ f.address = NoAddress \/ log.address.hex = f.address.hex
    /\ \A k \in 1..Len(f.topics) :
          f.topics[k] = Null \/ (k <= Len(log.topics) /\ log.topics[k] = f.topics[k])

\* provider.getLogs(filter): the matching logs in chain order
getLogs(c, f) == SelectSeq(c.logs, LAMBDA l : MatchesFilter(l, f))

\* the errors the operation can throw at position `attempt` of the trace
Throws(attempt) ==
    { [kind |-> "throw", error |-> [kind |-> "error", msg |-> k, attempt |-> attempt]] :
        k \in ErrorKinds }

Returns(v) == [kind |-> "return", value |-> v]

Balances == {0, 5}

OperationValues == {1, 2, 3}

Outcomes(r) ==
    Throws(Len(r.trace) + 1) \cup
    CASE r.op = "getBlock"   -> {Returns(BlockAt(chain, r.arg)), Returns(Null)}
      [] r.op = "getLatest"  -> {Returns(BlockAt(chain, chain.head)), Returns(Null)}
      [] r.op = "getBalance" -> {Returns([kind |-> "balance", wei |-> w]) : w \in Balances}
      [] r.op = "getLogs"    -> {Returns([kind |-> "logs", list |-> getLogs(chain, r.arg)])}
      [] r.op = "getTransactionCount" ->
                                {Returns([kind |-> "value", v |-> NumToInt(r.arg.block) + 1])}
      [] OTHER               -> {Returns([kind |-> "value", v |-> v]) : v \in OperationValues}

(***************************************************************************)
(* retryOperation, stepwise (utils.ts)                                     *)
(***************************************************************************)
RetryAttempt ==
    /\ retry.phase = "call"
    /\ \E out \in Outcomes(retry) : retry' = retryAttempt(retry, out)
    /\ rpcCalls' = rpcCalls + 1
    /\ UNCHANGED <<otherVars, pc, chain, searchVars, findVars, fetchVars>>

RetrySleep ==
    /\ retry.phase = "sleep"
    /\ retry' = retrySleep(retry)
    /\ UNCHANGED <<otherVars, pc, chain, rpcCalls, searchVars, findVars, fetchVars>>

(***************************************************************************)
(* findBlockByTimestamp (block-finder.ts)                                  *)
(***************************************************************************)
maxIterations == 50

LoopGuardNoCeiling == NumLe(low, high)

\* `low <= high && iterations < maxIterations`
LoopGuard == NumLe(low, high) /\ iterations < maxIterations

TimestampLowerOrEqual(blockTimestamp, target) == NumLe(blockTimestamp, target)

\* the comparison turned around
TimestampHigher(blockTimestamp, target) == NumGt(blockTimestamp, target)

\* `block.timestamp < targetTimestamp`
TimestampLower(blockTimestamp, target) == NumLt(blockTimestamp, target)

\* a lower bound that stays on the probed block
lowAtMid(m) == m

\* `low = mid + 1`
lowAbove(m) == NumAdd(m, Small(1))

\* loop test passed: compute mid and start the retry-wrapped getBlock(mid)
FindBlockProbe ==
    /\ pc = "search"
    /\ LoopGuard
    /\ mid' = FloorHalf(NumAdd(low, high))
    /\ retry' = retryOperation("getBlock", mid', DefaultMaxRetries, DefaultDelay)
    /\ probes' = probes + 1
    /\ pc' = "fetch"
    /\ UNCHANGED <<otherVars, chain, rpcCalls, targetTimestamp, low, high, result, iterations,
                   searchError, range, caller, findVars, fetchVars>>

\* the awaited fetch settled: the rest of the try block, or the catch clause
FindBlockStep ==
    /\ pc = "fetch"
    /\ RetryDone(retry)
    /\ IF RetryGaveValue(retry)
       THEN /\ IF TimestampLower(retry.value.timestamp, targetTimestamp)
               THEN /\ low' = lowAbove(mid)
                    /\ UNCHANGED <<high, result>>
               ELSE /\ result' = [kind |-> "block",
                                  number |-> retry.value.number,
                                  timestamp |-> retry.value.timestamp,
                                  hash |-> retry.value.hash]
                    /\ high' = NumSub(mid, Small(1))
                    /\ UNCHANGED low
            /\ iterations' = iterations + 1
            /\ pc' = "search"
            /\ UNCHANGED searchError
       ELSE /\ searchError' = TRUE
            /\ pc' = "break"
            /\ UNCHANGED <<low, high, result, iterations>>
    /\ retry' = NoRetry
    /\ UNCHANGED <<otherVars, chain, rpcCalls, targetTimestamp, mid, probes, range, caller, findVars, fetchVars>>

\* `return result`, after the loop ended or was broken out of
FindBlockReturn ==
    /\ \/ pc = "search" /\ ~LoopGuard
       \/ pc = "break"
    /\ pc' = IF caller = "find" THEN "found" ELSE "returned"
    /\ UNCHANGED <<otherVars, chain, retryVars, searchVars, findVars, fetchVars>>


(***************************************************************************)
(* The `find` command (block-finder.ts)                                    *)
(***************************************************************************)
Exit(code) ==
    /\ exitCode' = code
    /\ pc' = "exit"

\* resultData of the command, as handed to saveToJson
ResultData(withBalance) ==
    [kind |-> "resultData",
     targetTimestamp |-> targetTimestamp,
     foundBlock |-> result,
     addressBalance |-> IF withBalance
                        THEN [address |-> options.address, balanceWei |-> retry.value.wei]
                        ELSE Null,
     currentBlock |-> currentBlock.number]

\* parse and validate the timestamp, then start the fetch of the latest block
FindStart ==
    /\ pc = "start"
    /\ targetTimestamp' = parseInt(options.timestamp)
    /\ IF ~isValidTimestamp(targetTimestamp')
       THEN /\ Exit(1)
            /\ UNCHANGED retry
       ELSE /\ retry' = retryOperation("getLatest", Null, DefaultMaxRetries, DefaultDelay)
            /\ pc' = "latest"
            /\ UNCHANGED exitCode
    /\ UNCHANGED <<otherVars, chain, rpcCalls, low, high, mid, result, iterations, probes, searchError,
                   range, caller, options, currentBlock, reported, saved, fetchVars>>

\* the latest block arrived (or not): call findBlockByTimestamp(provider, t, 0, number)
FindLatest ==
    /\ pc = "latest"
    /\ RetryDone(retry)
    /\ IF RetryGaveValue(retry)
       THEN /\ currentBlock' = retry.value
            /\ low' = Small(0)
            /\ high' = retry.value.number
            /\ range' = [low |-> low', high |-> high']
            /\ result' = Null
            /\ iterations' = 0
            /\ pc' = "search"
            /\ UNCHANGED exitCode
       ELSE /\ Exit(1)
            /\ UNCHANGED <<currentBlock, low, high, range, result, iterations>>
    /\ retry' = NoRetry
    /\ UNCHANGED <<otherVars, chain, rpcCalls, targetTimestamp, mid, probes, searchError, caller,
                   options, reported, saved, fetchVars>>

\* the search returned: report the block, then validate the address and ask
\* its balance, or save the basic result
FindResult ==
    /\ pc = "found"
    /\ IF result # Null
       THEN /\ reported' = result
            /\ IF options.address # NoAddress
               THEN IF ~isValidAddress(options.address)
                    THEN /\ Exit(1)
                         /\ UNCHANGED <<retry, saved>>
                    ELSE /\ retry' = retryOperation("getBalance",
                                         [address |-> options.address, block |-> result.number],
                                         DefaultMaxRetries, DefaultDelay)
                         /\ pc' = "balance"
                         /\ UNCHANGED <<exitCode, saved>>
               ELSE /\ saved' = ResultData(FALSE)
                    /\ Exit(0)
                    /\ UNCHANGED retry
       ELSE /\ Exit(0)
            /\ UNCHANGED <<reported, retry, saved>>
    /\ UNCHANGED <<otherVars, chain, rpcCalls, searchVars, options, currentBlock, fetchVars>>

\* the balance arrived (or not): save the comprehensive result
FindBalance ==
    /\ pc = "balance"
    /\ RetryDone(retry)
    /\ IF retry.phase = "returned"
       THEN /\ saved' = ResultData(TRUE)
            /\ Exit(0)
       ELSE /\ Exit(1)
            /\ UNCHANGED saved
    /\ retry' = NoRetry
    /\ UNCHANGED <<otherVars, chain, rpcCalls, searchVars, options, currentBlock, reported, fetchVars>>

(***************************************************************************)
(* Inputs                                                                  *)
(***************************************************************************)
MaxHead == 3

\* 2022-01-01T00:00:00Z, the target of the repository's examples
ExampleTimestamp == 1640995200

Times == {Small(ExampleTimestamp - 1), Small(ExampleTimestamp), Small(ExampleTimestamp + 1)}

\* every chain of at most MaxHead + 1 blocks with timestamps in Times
SmallChains ==
    UNION { { [head |-> Small(h),
               segs |-> [k \in 1..(h + 1) |-> [start |-> Small(k - 1), ts |-> f[k - 1]]]] :
              f \in [0..h -> Times] } : h \in 0..MaxHead }

\* chains of 2^maxIterations - 1 and of 2^maxIterations blocks, whose timestamps
\* reach the target at the first block, at the second, at the head, or never
DeepHeads == {NumSub(Pow2(maxIterations), Small(2)), NumSub(Pow2(maxIterations), Small(1))}

DeepChains ==
    UNION { { [head |-> h, segs |-> <<[start |-> Small(0), ts |-> t]>>] :
              t \in {Small(ExampleTimestamp - 1), Small(ExampleTimestamp)} }
            \cup
            { [head |-> h,
               segs |-> <<[start |-> Small(0), ts |-> Small(ExampleTimestamp - 1)],
                          [start |-> k, ts |-> Small(ExampleTimestamp)]>>] :
              k \in {Small(1), h} } : h \in DeepHeads }

Chains == SmallChains \cup DeepChains

\* the ranges findBlockByTimestamp is called with: any [lo, hi] (empty ones
\* included) of a small chain, the whole of a deep one
Ranges(c) ==
    IF c \in SmallChains
    THEN UNION { { [low |-> Small(lo), high |-> Small(hi)] : hi \in (lo - 1)..c.head[2] } :
                 lo \in 0..c.head[2] }
    ELSE {[low |-> Small(0), high |-> c.head]}

\* the variables of the eth-transfers command, in a run of another command
FetchIdle ==
    /\ startBlock = NaN
    /\ endBlock = NaN
    /\ minValueWei = ZeroWei
    /\ batchBlock = NaN
    /\ blockPromises = <<>>
    /\ ethTransfers = <<>>
    /\ processedBlocks = 0
    /\ csv = Null
    /\ issued = {}
    /\ settleOrder = <<>>
    /\ failedBlocks = {}
    /\ faults = 0

\* the variables of the other commands, in a run of this one
OtherIdle ==
    /\ logs = Null
    /\ logPos = 0
    /\ transferEvents = <<>>
    /\ metaLog = <<>>
    /\ topTokens = <<>>
    /\ jsonSaved = Null
    /\ data = <<>>
    /\ topN = NaN
    /\ tokenStats = <<>>
    /\ sortedTokens = <<>>
    /\ addressStats = <<>>
    /\ sortedAddresses = <<>>
    /\ run = 1
    /\ firstOutput = Null
    /\ interval = NaN
    /\ block = NaN
    /\ blockInfo = Null
    /\ balance = Null
    /\ balanceHistory = <<>>
    /\ visited = <<>>
    /\ resultBlock = Null

NoOptions == [timestamp |-> <<>>, address |-> NoAddress]

\* a direct call findBlockByTimestamp(provider, target, low, high)
Init ==
    /\ chain \in Chains
    /\ range \in Ranges(chain)
    /\ targetTimestamp = Small(ExampleTimestamp)
    /\ low = range.low
    /\ high = range.high
    /\ mid = Small(0)
    /\ result = Null
    /\ iterations = 0
    /\ probes = 0
    /\ searchError = FALSE
    /\ caller = "direct"
    /\ pc = "search"
    /\ retry = NoRetry
    /\ rpcCalls = 0
    /\ options = NoOptions
    /\ currentBlock = Null
    /\ reported = Null
    /\ saved = Null
    /\ exitCode = -1
    /\ FetchIdle
    /\ OtherIdle

Next ==
    \/ FindBlockProbe
    \/ RetryAttempt
    \/ RetrySleep
    \/ FindBlockStep
    \/ FindBlockReturn

Spec == Init /\ [][Next]_vars

(***************************************************************************)
(* Properties of findBlockByTimestamp                                      *)
(***************************************************************************)
SearchReturned == pc \in {"returned", "found"}

\* high - low + 1 < 2^maxIterations
RangeBelowCeiling ==
    NumLt(NumSub(range.high, range.low), NumSub(Pow2(maxIterations), Small(1)))

\* C1 as stated: on a monotone chain, when every probed block was fetched, the
\* search returns the lowest block of [low, high] with timestamp >= target, and
\* null exactly when there is none -- for every range.
C1_AnyRange ==
    (SearchReturned /\ Monotone(chain) /\ ~searchError)
        => result = LowestAtOrAfter(chain, targetTimestamp, range.low, range.high)

\* C1 amended: the same, for every range of fewer than 2^50 blocks (a range the
\* 50 iterations can exhaust).
C1_LowestAtOrAfter ==
    (SearchReturned /\ Monotone(chain) /\ ~searchError /\ RangeBelowCeiling)
        => result = LowestAtOrAfter(chain, targetTimestamp, range.low, range.high)

\* a search that returned the first of two blocks carrying exactly the target
\* timestamp, after earlier blocks below the target
C1_Witness ==
    /\ SearchReturned /\ Monotone(chain) /\ ~searchError /\ RangeBelowCeiling
    /\ result # Null
    /\ result.timestamp = targetTimestamp
    /\ NumLt(range.low, result.number)
    /\ NumLt(result.number, range.high)
    /\ TimestampOf(chain, NumAdd(result.number, Small(1))) = targetTimestamp

\* C2: one invocation starts at most maxIterations (50) midpoint fetches.
C2_ProbeCeiling == probes <= maxIterations

\* the ceiling is reached with part of the range still unsearched
C2_Witness == probes = maxIterations /\ pc = "search" /\ NumLe(low, high)

\* a direct call of findBlockByTimestamp in which every step that can be
\* taken is taken: a pending RPC request is answered or fails, a sleep ends,
\* and the continuation of an await runs
SpecTerminates == Init /\ [][Next]_vars /\ WF_vars(Next)

\* high - low, one less than the number of blocks of [low, high]
Width == NumSub(high, low)

\* C23: every invocation of findBlockByTimestamp terminates.  It returns; each
\* iteration whose fetch succeeded strictly shrinks [low, high]; the loop is
\* left only when the interval is empty, when maxIterations is reached, or at
\* the first failed fetch; and what is returned is the result held at that
\* moment.
C23_SearchTerminates ==
    /\ <>SearchReturned
    /\ [][(pc = "fetch" /\ pc' = "search") =>
            /\ NumLt(NumSub(high', low'), Width)
            /\ iterations' = iterations + 1]_vars
    /\ [][(pc = "fetch" /\ pc' = "break") =>
            /\ ~RetryGaveValue(retry)
            /\ result' = result]_vars
    /\ [][(~SearchReturned /\ SearchReturned') =>
            /\ \/ pc = "search" /\ NumGt(low, high)
               \/ pc = "search" /\ iterations = maxIterations
               \/ pc = "break" /\ searchError
            /\ result' = result]_vars
    /\ [](pc = "break" => probes = iterations + 1)

\* a search was cut short by a failed fetch after two successful iterations
\* and returned the block it had found by then
C23_Witness ==
    /\ SearchReturned
    /\ searchError
    /\ iterations = 2
    /\ result # Null
    /\ NumLe(low, high)

\* C27: on any chain, monotone or not, and at any point of the search (so
\* also when it is cut short by a failed fetch or by the iteration ceiling),
\* the block held as result, if any, is a block of the chain whose number lies
\* in the initial range [low, high] and whose timestamp is at least the target;
\* this is the block that is returned.
C27_ResultInRangeAtOrAfter ==
    result # Null =>
        /\ NumLe(range.low, result.number)
        /\ NumLe(result.number, range.high)
        /\ ~NumLt(result.timestamp, targetTimestamp)
        /\ result.timestamp = TimestampOf(chain, result.number)

\* on a chain whose timestamps go down, a search cut short by a failed fetch
\* returned a block
C27_Witness ==
    /\ SearchReturned
    /\ ~Monotone(chain)
    /\ searchError
    /\ result # Null
    /\ NumLt(range.low, range.high)


(***************************************************************************)
(* retryOperation on its own: any operation, any maxRetries >= 1           *)
(***************************************************************************)
MaxRetriesArg == 4

Delays == {DefaultDelay, 100, 5000}

InitRetry ==
    /\ chain = [head |-> Small(0),
                segs |-> <<[start |-> Small(0), ts |-> Small(ExampleTimestamp)]>>]
    /\ \E m \in 1..MaxRetriesArg, d \in Delays :
          retry = retryOperation("operation", Null, m, d)
    /\ pc = "retry"
    /\ range = [low |-> Small(0), high |-> Small(0)]
    /\ targetTimestamp = Small(ExampleTimestamp)
    /\ low = Small(0)
    /\ high = Small(0)
    /\ mid = Small(0)
    /\ result = Null
    /\ iterations = 0
    /\ probes = 0
    /\ searchError = FALSE
    /\ caller = "direct"
    /\ rpcCalls = 0
    /\ options = NoOptions
    /\ currentBlock = Null
    /\ reported = Null
    /\ saved = Null
    /\ exitCode = -1
    /\ FetchIdle
    /\ OtherIdle

NextRetry == RetryAttempt \/ RetrySleep

SpecRetry == InitRetry /\ [][NextRetry]_vars

(***************************************************************************)
(* The `find` command                                                      *)
(***************************************************************************)
MaxFindHead == 2

\* values of --timestamp
TimestampStrings ==
    { <<"1", "6", "4", "0", "9", "9", "5", "2", "0", "0">>,
      <<"1", "6", "4", "0", "9", "9", "5", "2", "0", "0", "x">>,
      <<"0", "x", "6", "1", "c", "f", "9", "9", "8", "0">>,
      <<"1", "4", "2", "0", "0", "0", "0", "0", "0", "0">>,
      <<"1", "4", "2", "0", "0", "0", "0", "0", "0", "1">>,
      <<"9", "9", "9", "9", "9", "9", "9", "9", "9", "8">>,
      <<"9", "9", "9", "9", "9", "9", "9", "9", "9", "9">>,
      <<"-", "5">>,
      <<"a", "b", "c">>,
      <<>> }

\* values of --address ("" when the option is not given)
AddressStrings == {NoAddress, Addr(Vitalik, "checksum"), Addr("123", "lower")}

InitFind ==
    /\ chain \in {c \in SmallChains : NumLe(c.head, Small(MaxFindHead))}
    /\ options \in [timestamp : TimestampStrings, address : AddressStrings]
    /\ pc = "start"
    /\ caller = "find"
    /\ retry = NoRetry
    /\ rpcCalls = 0
    /\ targetTimestamp = NaN
    /\ range = [low |-> Small(0), high |-> Small(0)]
    /\ low = Small(0)
    /\ high = Small(0)
    /\ mid = Small(0)
    /\ result = Null
    /\ iterations = 0
    /\ probes = 0
    /\ searchError = FALSE
    /\ currentBlock = Null
    /\ reported = Null
    /\ saved = Null
    /\ exitCode = -1
    /\ FetchIdle
    /\ OtherIdle

NextFind ==
    \/ FindStart
    \/ RetryAttempt
    \/ RetrySleep
    \/ FindLatest
    \/ FindBlockProbe
    \/ FindBlockStep
    \/ FindBlockReturn
    \/ FindResult
    \/ FindBalance

SpecFind == InitFind /\ [][NextFind]_vars


(***************************************************************************)
(* Properties of the `find` command and of retryOperation                  *)
(***************************************************************************)
\* C3 as stated: when the search hit an absent block or a fetch that failed
\* after its retries, the find command exits non-zero and reports no block.
C3_SearchFailureIsFatal ==
    (searchError /\ pc = "exit") => (exitCode = 1 /\ reported = Null)

IsCall(e) == e.ev = "call"

\* the outcomes of the operation's invocations, in order
Attempts(r) == SelectSeq(r.trace, IsCall)

AllThrew(calls) == \A j \in 1..Len(calls) : calls[j].out.kind = "throw"

\* C4: as soon as an attempt succeeds (after k < maxRetries failures)
\* retryOperation has returned that attempt's value; once maxRetries attempts
\* have all failed it has thrown the error of the last one; it throws in no
\* other case.
C4_RetryOutcome ==
    LET calls == Attempts(retry)
        n     == Len(calls)
    IN  retry.phase # "none" =>
          /\ (n > 0 /\ calls[n].out.kind = "return") =>
                (retry.phase = "returned" /\ retry.value = calls[n].out.value)
          /\ (n = retry.maxRetries /\ AllThrew(calls)) =>
                (retry.phase = "thrown" /\ retry.error = calls[n].out.error)
          /\ retry.phase = "thrown" => (n = retry.maxRetries /\ AllThrew(calls))

\* two failures, then a success on the third and last attempt allowed
C4_Witness ==
    /\ retry.phase = "returned"
    /\ retry.maxRetries = DefaultMaxRetries
    /\ Len(Attempts(retry)) = DefaultMaxRetries
    /\ retry.value = [kind |-> "value", v |-> 2]

\* C5: the operation is invoked at most maxRetries times and never after a
\* success; every failed attempt but the last is followed by exactly one sleep
\* of the fixed delay and then by the next attempt; nothing follows the final
\* attempt.
C5_RetrySchedule ==
    LET t == retry.trace IN
    retry.phase # "none" =>
      /\ \A j \in 1..Len(t) :
            IF j % 2 = 1
            THEN /\ t[j].ev = "call"
                 /\ j < Len(t) => t[j].out.kind = "throw"
            ELSE /\ t[j].ev = "sleep"
                 /\ t[j].ms = retry.delay
      /\ Len(Attempts(retry)) <= retry.maxRetries
      /\ RetryDone(retry) => (Len(t) > 0 /\ t[Len(t)].ev = "call")
      /\ retry.phase = "sleep" => (Len(t) > 0 /\ t[Len(t)].ev = "call")
      /\ retry.phase = "call" => (Len(t) = 0 \/ t[Len(t)].ev = "sleep")

\* all three attempts failed: call, sleep, call, sleep, call, and no third sleep
C5_Witness ==
    /\ retry.phase = "thrown"
    /\ retry.maxRetries = DefaultMaxRetries
    /\ Len(retry.trace) = 2 * DefaultMaxRetries - 1

\* C6: a target timestamp that is NaN, <= 1420000000 or >= 9999999999 makes the
\* find command exit with status 1 without having issued any RPC call.
C6_InvalidTimestampRejected ==
    (/\ pc # "start"
     /\ caller = "find"
     /\ \/ IsNaN(targetTimestamp)
        \/ NumLe(targetTimestamp, Small(1420000000))
        \/ NumGe(targetTimestamp, NumAdd(Small(999999999), NumTimes(Small(1000000000), 9))))
        => (pc = "exit" /\ exitCode = 1 /\ rpcCalls = 0)

\* --timestamp abc: parseInt gives NaN and the command has exited with status 1
C6_Witness ==
    /\ options.timestamp = <<"a", "b", "c">>
    /\ IsNaN(targetTimestamp)
    /\ pc = "exit"
    /\ exitCode = 1
    /\ rpcCalls = 0


(***************************************************************************)
(* The `fetch` command of eth-transfers.ts                                 *)
(***************************************************************************)
\* the batch size is 100 in the source; the model runs the same loop with a
\* smaller batch so that ranges of several batches stay explorable
batchSize == 2

MaxFaults == 3

\* provider.getBlock(blockNumber, true): the block with its transactions, null
\* beyond the head
BlockWithTransactions(c, b) ==
    IF NumLe(b, c.head)
    THEN [kind |-> "block", number |-> b, timestamp |-> TimestampOf(c, b),
          hash |-> <<"hash", b>>, transactions |-> c.txs[b]]
    ELSE Null

\* what one getBlock(blockNumber, true) request can do
FetchOutcomes(r) ==
    {Returns(BlockWithTransactions(chain, r.arg))}
    \cup (IF faults < MaxFaults THEN Throws(Len(r.trace) + 1) ELSE {})

\* `processBlock(provider, blockNum, options, minValueWei)` up to its first await
NewPromise(blockNum) ==
    [blockNumber |-> blockNum, state |-> "pending", transfers |-> <<>>,
     retry |-> retryOperation("getBlockTx", blockNum, DefaultMaxRetries, DefaultDelay)]

\* the promise after a step of its fetch: settled as soon as the fetch is done
AfterFetchStep(p, r) ==
    IF RetryDone(r)
    THEN LET res == processBlock(r, p.blockNumber, options, minValueWei) IN
         [p EXCEPT !.state = res.state, !.transfers = res.transfers, !.retry = NoRetry]
    ELSE [p EXCEPT !.retry = r]

PromiseAny(ps) == \E k \in 1..Len(ps) : ps[k].state # "pending"

\* `await Promise.all(blockPromises)` resumes: every promise fulfilled, or one rejected
PromiseAll(ps) ==
    \/ \A k \in 1..Len(ps) : ps[k].state = "fulfilled"
    \/ \E k \in 1..Len(ps) : ps[k].state = "rejected"

RECURSIVE Flatten(_)
Flatten(seqs) == IF seqs = <<>> THEN <<>> ELSE Head(seqs) \o Flatten(Tail(seqs))

batchResultsReversed(ps) == [k \in 1..Len(ps) |-> ps[Len(ps) + 1 - k].transfers]

\* the values of the promises in the order in which the promises settled
batchResultsInSettleOrder(ps) ==
    LET mine == SelectSeq(settleOrder, LAMBDA b : \E k \in 1..Len(ps) : ps[k].blockNumber = b)
    IN  [j \in 1..Len(mine) |->
            ps[CHOOSE k \in 1..Len(ps) : ps[k].blockNumber = mine[j]].transfers]

\* batchResults: the values of the promises, in the order of blockPromises
batchResults(ps) == [k \in 1..Len(ps) |-> ps[k].transfers]

\* the rows of the CSV file
CsvRows(transfers) ==
    [k \in 1..Len(transfers) |->
        [from |-> transfers[k].from, to |-> transfers[k].to, value |-> transfers[k].value,
         blockNumber |-> transfers[k].blockNumber,
         transactionHash |-> transfers[k].transactionHash]]

\* parse and validate the options, compute minValueWei, enter the batch loop
FetchStart ==
    /\ pc = "start"
    /\ caller = "fetch"
    /\ startBlock' = parseInt(options.start)
    /\ endBlock' = parseInt(options.end)
    /\ LET minValueEth == parseFloat(options.minValue)
           parsed      == parseEther(FloatToString(minValueEth))
       IN  IF \/ ~isValidBlockNumber(startBlock') \/ ~isValidBlockNumber(endBlock')
              \/ NumGt(startBlock', endBlock')
              \/ FloatNegative(minValueEth)
              \/ (options.from # NoAddress /\ ~isValidAddress(options.from))
              \/ (options.to # NoAddress /\ ~isValidAddress(options.to))
              \/ parsed = Null
           THEN /\ Exit(1)
                /\ UNCHANGED <<minValueWei, batchBlock>>
           ELSE /\ minValueWei' = parsed.wei
                /\ batchBlock' = startBlock'
                /\ pc' = "batch"
                /\ UNCHANGED exitCode
    /\ UNCHANGED <<otherVars, chain, retryVars, searchVars, options, currentBlock, reported, saved,
                   blockPromises, ethTransfers, processedBlocks, csv, issued, settleOrder,
                   failedBlocks, faults>>

\* a batch that takes every block that is left
batchEndWholeRange(current, last) == last

\* a batch that runs one block into the next one
batchEndInclusive(current, last) == NumMin(NumAdd(current, Small(batchSize)), last)

\* `const batchEnd = Math.min(currentBlock + batchSize - 1, endBlock)`
batchEnd(current, last) == NumMin(NumAdd(current, Small(batchSize - 1)), last)

\* one pass of the batch loop up to the await: every block of the batch is
\* handed to processBlock, which starts its fetch
FetchBatch ==
    /\ pc = "batch"
    /\ NumLe(batchBlock, endBlock)
    /\ LET n == NumToInt(NumSub(batchEnd(batchBlock, endBlock), batchBlock)) + 1
       IN  /\ blockPromises' = [k \in 1..n |-> NewPromise(NumAdd(batchBlock, Small(k - 1)))]
           /\ issued' = issued \cup {NumAdd(batchBlock, Small(k - 1)) : k \in 1..n}
    /\ pc' = "await"
    /\ UNCHANGED <<otherVars, chain, retryVars, searchVars, findVars, startBlock, endBlock, minValueWei,
                   batchBlock, ethTransfers, processedBlocks, csv, settleOrder, failedBlocks,
                   faults>>

\* the k-th fetch of the batch gets its response
ProcessBlockAttempt(k) ==
    /\ pc = "await"
    /\ k \in 1..Len(blockPromises)
    /\ blockPromises[k].state = "pending"
    /\ blockPromises[k].retry.phase = "call"
    /\ \E out \in FetchOutcomes(blockPromises[k].retry) :
          LET r == retryAttempt(blockPromises[k].retry, out)
              b == blockPromises[k].blockNumber
          IN  /\ blockPromises' = [blockPromises EXCEPT ![k] = AfterFetchStep(@, r)]
              /\ faults' = IF out.kind = "throw" THEN faults + 1 ELSE faults
              /\ settleOrder' = IF RetryDone(r) THEN Append(settleOrder, b) ELSE settleOrder
              /\ failedBlocks' = IF r.phase = "thrown" \/ (r.phase = "returned" /\ r.value = Null)
                                 THEN failedBlocks \cup {b} ELSE failedBlocks
    /\ rpcCalls' = rpcCalls + 1
    /\ UNCHANGED <<otherVars, pc, chain, retry, searchVars, findVars, startBlock, endBlock, minValueWei,
                   batchBlock, ethTransfers, processedBlocks, csv, issued>>

\* the k-th fetch of the batch ends its sleep between two attempts
ProcessBlockSleep(k) ==
    /\ pc = "await"
    /\ k \in 1..Len(blockPromises)
    /\ blockPromises[k].state = "pending"
    /\ blockPromises[k].retry.phase = "sleep"
    /\ LET r == retrySleep(blockPromises[k].retry)
           b == blockPromises[k].blockNumber
       IN  /\ blockPromises' = [blockPromises EXCEPT ![k] = AfterFetchStep(@, r)]
           /\ settleOrder' = IF RetryDone(r) THEN Append(settleOrder, b) ELSE settleOrder
           /\ failedBlocks' = IF r.phase = "thrown" THEN failedBlocks \cup {b} ELSE failedBlocks
    /\ UNCHANGED <<otherVars, pc, chain, retryVars, searchVars, findVars, startBlock, endBlock,
                   minValueWei, batchBlock, ethTransfers, processedBlocks, csv, issued, faults>>

\* Promise.all settled: append the results in order (or land in the catch clause)
FetchJoin ==
    /\ pc = "await"
    /\ PromiseAll(blockPromises)
    /\ IF \E k \in 1..Len(blockPromises) : blockPromises[k].state = "rejected"
       THEN /\ Exit(1)
            /\ UNCHANGED <<ethTransfers, processedBlocks>>
       ELSE /\ ethTransfers' = ethTransfers \o Flatten(batchResults(blockPromises))
            /\ processedBlocks' = processedBlocks + batchSize
            /\ pc' = "delay"
            /\ UNCHANGED exitCode
    /\ UNCHANGED <<otherVars, chain, retryVars, searchVars, options, currentBlock, reported, saved,
                   startBlock, endBlock, minValueWei, batchBlock, blockPromises, csv, issued,
                   settleOrder, failedBlocks, faults>>

\* the delay between batches, then `currentBlock += batchSize`
FetchDelay ==
    /\ pc = "delay"
    /\ batchBlock' = NumAdd(batchBlock, Small(batchSize))
    /\ blockPromises' = <<>>
    /\ pc' = "batch"
    /\ UNCHANGED <<otherVars, chain, retryVars, searchVars, findVars, startBlock, endBlock, minValueWei,
                   ethTransfers, processedBlocks, csv, issued, settleOrder, failedBlocks, faults>>

\* the loop is over: nothing to save, or the CSV
FetchFinish ==
    /\ pc = "batch"
    /\ ~NumLe(batchBlock, endBlock)
    /\ csv' = IF ethTransfers = <<>> THEN Null
              ELSE [kind |-> "csv", rows |-> CsvRows(ethTransfers)]
    /\ Exit(0)
    /\ UNCHANGED <<otherVars, chain, retryVars, searchVars, options, currentBlock, reported, saved,
                   startBlock, endBlock, minValueWei, batchBlock, blockPromises, ethTransfers,
                   processedBlocks, issued, settleOrder, failedBlocks, faults>>

(***************************************************************************)
(* Inputs of the scan                                                      *)
(***************************************************************************)
MaxScanBlock == 4

Tx(from, to, value, gasPrice) ==
    [from |-> from, to |-> to, value |-> value, gasLimit |-> 21000, gasPrice |-> gasPrice]

\* the transaction lists a block can carry
BlockContents ==
    << <<Tx(Addr(Vitalik, "checksum"), Null, Wei(1, 0, 0), Null),
         Tx(Addr(Vitalik, "checksum"), Addr(Binance, "checksum"), Wei(1, 0, 0), [n |-> 7]),
         Tx(Addr(Binance, "checksum"), Addr(Vitalik, "checksum"), ZeroWei, [n |-> 7])>>,
       <<Tx(Addr(Binance, "checksum"), Addr(Vitalik, "checksum"), Wei(0, 200000000, 0), Null),
         Tx(Addr(Coinbase, "checksum"), Addr(Binance, "checksum"), Wei(0, 500000000, 0), [n |-> 9])>>,
       <<>>,
       <<Tx(Addr(Vitalik, "checksum"), Addr(Coinbase, "checksum"), Wei(0, 0, 1), [n |-> 1])>> >>

\* the transactions of block b: a list of BlockContents, each with its hash
TransactionsOf(b, shift) ==
    LET list == BlockContents[((b + shift) % Len(BlockContents)) + 1] IN
    [k \in 1..Len(list) |->
        [from |-> list[k].from, to |-> list[k].to, value |-> list[k].value,
         gasLimit |-> list[k].gasLimit, gasPrice |-> list[k].gasPrice,
         hash |-> <<"tx", b, k>>]]

\* chains whose head is the block before MaxScanBlock
ScanChains ==
    { [head |-> Small(MaxScanBlock - 1),
       segs |-> <<[start |-> Small(0), ts |-> Small(ExampleTimestamp)]>>,
       txs  |-> [b \in {Small(n) : n \in 0..(MaxScanBlock - 1)} |->
                    TransactionsOf(NumToInt(b), shift)]] : shift \in 0..(Len(BlockContents) - 1) }

BlockStrings ==
    {IntChars(n) : n \in 0..MaxScanBlock} \cup {<<"a", "b", "c">>, <<"-", "1">>}

Filters ==
    { [from |-> NoAddress, to |-> NoAddress, minValue |-> <<"0">>],
      [from |-> Addr(Vitalik, "lower"), to |-> NoAddress, minValue |-> <<"0", ".", "5">>],
      [from |-> NoAddress, to |-> Addr(Vitalik, "upper"), minValue |-> <<"0">>],
      [from |-> Addr(Vitalik, "badmix"), to |-> NoAddress, minValue |-> <<"0">>],
      [from |-> NoAddress, to |-> Addr("123", "lower"), minValue |-> <<"0">>],
      [from |-> NoAddress, to |-> NoAddress, minValue |-> <<"-", "1">>],
      [from |-> NoAddress, to |-> NoAddress, minValue |-> <<"a", "b", "c">>] }

FetchOptions ==
    { [start |-> st, end |-> en, from |-> f.from, to |-> f.to, minValue |-> f.minValue] :
        st \in BlockStrings, en \in BlockStrings, f \in Filters }

InitFetch ==
    /\ chain \in ScanChains
    /\ options \in FetchOptions
    /\ pc = "start"
    /\ caller = "fetch"
    /\ retry = NoRetry
    /\ rpcCalls = 0
    /\ targetTimestamp = NaN
    /\ range = [low |-> Small(0), high |-> Small(0)]
    /\ low = Small(0)
    /\ high = Small(0)
    /\ mid = Small(0)
    /\ result = Null
    /\ iterations = 0
    /\ probes = 0
    /\ searchError = FALSE
    /\ currentBlock = Null
    /\ reported = Null
    /\ saved = Null
    /\ exitCode = -1
    /\ FetchIdle
    /\ OtherIdle

NextFetch ==
    \/ FetchStart
    \/ FetchBatch
    \/ \E k \in 1..batchSize : ProcessBlockAttempt(k)
    \/ \E k \in 1..batchSize : ProcessBlockSleep(k)
    \/ FetchJoin
    \/ FetchDelay
    \/ FetchFinish

SpecFetch == InitFetch /\ [][NextFetch]_vars


(***************************************************************************)
(* Properties of the native-transfer scan                                  *)
(***************************************************************************)
ScanStarted == issued # {}

ScanEnded == ScanStarted /\ pc = "exit"

Settled == {settleOrder[j] : j \in 1..Len(settleOrder)}

\* the heights of the requested range, ascending
RangeBlocks ==
    [k \in 1..(NumToInt(NumSub(endBlock, startBlock)) + 1) |-> NumAdd(startBlock, Small(k - 1))]

\* what block b must contribute: nothing if its fetch failed or it is absent,
\* else its transfers in transaction order
Contribution(b) ==
    IF b \in failedBlocks THEN <<>>
    ELSE TransfersOf(chain.txs[b], b, options, minValueWei)

RECURSIVE OfBlock(_, _)
OfBlock(transfers, b) ==
    IF transfers = <<>> THEN <<>>
    ELSE (IF Head(transfers).blockNumber = b THEN <<Head(transfers)>> ELSE <<>>)
         \o OfBlock(Tail(transfers), b)

\* every transfer the scan holds: returned, or waiting in a settled promise
HeldTransfers ==
    {ethTransfers[j] : j \in 1..Len(ethTransfers)}
    \cup UNION { {blockPromises[k].transfers[j] : j \in 1..Len(blockPromises[k].transfers)} :
                 k \in 1..Len(blockPromises) }

\* C7: no transfer of the scan has an absent `to` or the value 0, and no row of
\* the CSV either.
C7_NoCreationNoZeroValue ==
    /\ \A t \in HeldTransfers : t.to # Null /\ t.to # NoAddress /\ t.value # <<"0">>
    /\ csv # Null =>
          \A j \in 1..Len(csv.rows) :
              csv.rows[j].to # Null /\ csv.rows[j].to # NoAddress /\ csv.rows[j].value # <<"0">>

\* an unfiltered scan (minimum 0) returned transfers after fetching a block that
\* holds a contract creation and a zero-value transaction
C7_Witness ==
    /\ ScanEnded /\ exitCode = 0 /\ csv # Null
    /\ options.from = NoAddress /\ options.to = NoAddress /\ minValueWei = ZeroWei
    /\ \E b \in Settled \ failedBlocks :
          /\ \E j \in 1..Len(chain.txs[b]) : chain.txs[b][j].to = Null
          /\ \E j \in 1..Len(chain.txs[b]) : chain.txs[b][j].value = ZeroWei
          /\ OfBlock(ethTransfers, b) # <<>>

BatchOf(b) == NumToInt(NumSub(b, startBlock)) \div batchSize

\* C9: whenever a fetch of a block of some batch has been issued, every block
\* of the earlier batches of the range has settled.
C9_BatchesSequential ==
    \A b \in issued :
        \A k \in 1..Len(RangeBlocks) :
            BatchOf(RangeBlocks[k]) < BatchOf(b) => RangeBlocks[k] \in Settled

\* a fetch of the second batch is in flight after a fetch of the first batch
\* failed for good and was absorbed
C9_Witness ==
    /\ pc = "await"
    /\ \E k \in 1..Len(blockPromises) :
          /\ blockPromises[k].state = "pending"
          /\ BatchOf(blockPromises[k].blockNumber) = 1
    /\ \E b \in failedBlocks : BatchOf(b) = 0 /\ NumLe(b, chain.head)

\* the output the scan must produce: the contributions in ascending block order
ExpectedOutput == Flatten([k \in 1..Len(RangeBlocks) |-> Contribution(RangeBlocks[k])])

\* C10: whatever the order in which the fetches of a batch complete, the scan
\* ends with the transfers in ascending block order and, within a block, in
\* transaction order; while a batch is awaited a step of a fetch changes the
\* slot of that fetch only and leaves the output list alone.
C10_OutputIndependentOfInterleaving ==
    /\ [](ScanEnded => ethTransfers = ExpectedOutput)
    /\ [][(pc = "await" /\ pc' = "await") =>
            /\ ethTransfers' = ethTransfers
            /\ Cardinality({k \in 1..Len(blockPromises) :
                              blockPromises'[k] # blockPromises[k]}) <= 1]_vars

\* two blocks of one batch settled in descending order (the lower one after a
\* retry), both contributed, and the output lists the lower block first
C10_Witness ==
    /\ ScanEnded /\ exitCode = 0
    /\ \E i, j \in 1..Len(settleOrder) :
          /\ i < j
          /\ NumLt(settleOrder[j], settleOrder[i])
          /\ BatchOf(settleOrder[i]) = BatchOf(settleOrder[j])
          /\ OfBlock(ethTransfers, settleOrder[i]) # <<>>
          /\ OfBlock(ethTransfers, settleOrder[j]) # <<>>
    /\ ethTransfers = ExpectedOutput

\* the block fetches of the scan that are in flight: processBlock calls whose
\* promise has not settled
InFlight == {k \in 1..Len(blockPromises) : blockPromises[k].state = "pending"}

\* the number of blocks of the requested range
RangeSize == Len(RangeBlocks)

\* C21: at every moment of a native-transfer scan at most batchSize block
\* fetches are in flight, whatever the size of the range; outside the await
\* of a batch none is.
C21_InFlightBounded ==
    caller = "fetch" =>
        /\ Cardinality(InFlight) <= batchSize
        /\ Len(blockPromises) <= batchSize
        /\ pc # "await" => InFlight = {}

\* a range of more than two batches: a later batch has all its batchSize
\* fetches in flight
C21_Witness ==
    /\ caller = "fetch"
    /\ pc = "await"
    /\ RangeSize > 2 * batchSize
    /\ NumGt(batchBlock, startBlock)
    /\ Cardinality(InFlight) = batchSize

\* the blocks of the batch that is being awaited, in the order of the calls
BatchBlocks == [k \in 1..Len(blockPromises) |-> blockPromises[k].blockNumber]

\* the blocks from b on, n of them
Consecutive(b, n) == [k \in 1..n |-> NumAdd(b, Small(k - 1))]

\* C22: the scan partitions a valid range into consecutive disjoint batches
\* of exactly batchSize blocks, the last one possibly shorter.  Every batch
\* starts a multiple of batchSize above start and holds the batchSize blocks
\* from there on, cut at end; a block is handed to processBlock once (no block
\* settles twice and no block of the awaited batch has settled before); only
\* blocks of the range are fetched; and when the scan ends every block of the
\* range has been processed exactly once.
C22_BatchesPartitionRange ==
    (caller = "fetch" /\ ScanStarted) =>
        /\ \A b \in issued : NumLe(startBlock, b) /\ NumLe(b, endBlock)
        /\ NumToInt(NumSub(batchBlock, startBlock)) % batchSize = 0
        /\ \A i, j \in 1..Len(settleOrder) : i # j => settleOrder[i] # settleOrder[j]
        /\ pc = "await" =>
              /\ BatchBlocks =
                    Consecutive(batchBlock,
                                IF NumLe(NumAdd(batchBlock, Small(batchSize - 1)), endBlock)
                                THEN batchSize
                                ELSE NumToInt(NumSub(endBlock, batchBlock)) + 1)
              /\ \A k \in InFlight : blockPromises[k].blockNumber \notin Settled
              /\ issued = {b \in issued : NumLt(b, batchBlock)}
                             \cup {BatchBlocks[k] : k \in 1..Len(BatchBlocks)}
              /\ {b \in issued : NumLt(b, batchBlock)}
                    = {RangeBlocks[k] : k \in 1..NumToInt(NumSub(batchBlock, startBlock))}
        /\ pc = "exit" =>
              /\ issued = {RangeBlocks[k] : k \in 1..RangeSize}
              /\ Settled = issued
              /\ Len(settleOrder) = RangeSize

\* the last batch of a range that is not a multiple of batchSize has been
\* joined: it was shorter than the others, and every block has settled once
C22_Witness ==
    /\ caller = "fetch"
    /\ pc = "delay"
    /\ RangeSize > 2 * batchSize
    /\ RangeSize % batchSize # 0
    /\ Len(blockPromises) = RangeSize % batchSize
    /\ Len(settleOrder) = RangeSize

\* the blocks of the range whose fetch gave a block
FetchedBlocks == {RangeBlocks[k] : k \in 1..RangeSize} \ failedBlocks

\* the transaction is one the scan is asked for: it has a `to`, a value that is
\* not zero and not below the minimum, and the sender and the receiver the
\* filters name, whatever the case of their hex digits
Wanted(tx) ==
    /\ tx.to \notin {Null, NoAddress}
    /\ tx.value # ZeroWei
    /\ tx.value = minValueWei \/ WeiLt(minValueWei, tx.value)
    /\ options.from # NoAddress => tx.from.hex = options.from.hex
    /\ options.to # NoAddress => tx.to.hex = options.to.hex

\* the transactions asked for, as pairs of block and transaction
WantedTransactions ==
    UNION { {[block |-> b, tx |-> chain.txs[b][j]] :
               j \in {i \in 1..Len(chain.txs[b]) : Wanted(chain.txs[b][i])}} :
            b \in FetchedBlocks }

\* C26: the scan returns exactly the wanted transactions of the blocks it
\* fetched: every one of them is returned, once, with its own fields, and
\* nothing else is returned.
C26_ExactFilter ==
    (caller = "fetch" /\ ScanEnded) =>
        /\ {ethTransfers[j].transactionHash : j \in 1..Len(ethTransfers)}
              = {w.tx.hash : w \in WantedTransactions}
        /\ Len(ethTransfers) = Cardinality(WantedTransactions)
        /\ \A j \in 1..Len(ethTransfers) :
              \E w \in WantedTransactions :
                 /\ ethTransfers[j].transactionHash = w.tx.hash
                 /\ ethTransfers[j].blockNumber = w.block
                 /\ ethTransfers[j].from = w.tx.from
                 /\ ethTransfers[j].to = w.tx.to
                 /\ ethTransfers[j].value = WeiToString(w.tx.value)

\* a scan with a lower-case sender filter and a minimum of 0.5 ETH returned a
\* transfer of that sender and left out a smaller one of the same sender
C26_Witness ==
    /\ caller = "fetch" /\ ScanEnded
    /\ options.from # NoAddress
    /\ options.from.case = "lower"
    /\ minValueWei # ZeroWei
    /\ ethTransfers # <<>>
    /\ \E b \in FetchedBlocks : \E j \in 1..Len(chain.txs[b]) :
          /\ chain.txs[b][j].from.hex = options.from.hex
          /\ chain.txs[b][j].to # Null
          /\ chain.txs[b][j].value # ZeroWei
          /\ WeiLt(chain.txs[b][j].value, minValueWei)


(***************************************************************************)
(* The `fetch` command of transfer-events.ts                               *)
(***************************************************************************)
\* BigInt(string) throws a SyntaxError: the string is neither empty, nor a run
\* of decimal digits, nor 0x followed by hex digits
BigIntThrows(str) ==
    LET hex    == Len(str) >= 2 /\ str[1] = "0" /\ str[2] \in {"x", "X"}
        digits == IF hex THEN Tail(Tail(str)) ELSE str
    IN  /\ str # <<>>
        /\ digits = <<>> \/ \E k \in 1..Len(digits) : ~IsDigit(digits[k], IF hex THEN 16 ELSE 10)

\* BigInt(string): the value of a decimal or 0x-prefixed string, 0 for ""
BigInt(str) ==
    LET hex    == Len(str) >= 2 /\ str[1] = "0" /\ str[2] \in {"x", "X"}
        digits == IF hex THEN Tail(Tail(str)) ELSE str
    IN  IF str = <<>> THEN 0
        ELSE NumToInt(ParseDigits(digits, IF hex THEN 16 ELSE 10, Small(0), FALSE))

\* ethers.zeroPadValue(address, 32) as a topic
zeroPadValue(address) == Topic(address.hex)

\* ethers.getAddress('0x' + topic.slice(26)): the low 20 bytes, checksummed
AddressOfTopic(topic) == Addr(topic.word, "checksum")

\* a filter that leaves the contract out
BuildFilterAnyContract(opts, fromBlock, toBlock) ==
    [fromBlock |-> fromBlock,
     toBlock   |-> toBlock,
     address   |-> NoAddress,
     topics    |->
        IF opts.from # NoAddress /\ opts.to # NoAddress
        THEN <<TransferTopic, zeroPadValue(opts.from), zeroPadValue(opts.to)>>
        ELSE IF opts.from # NoAddress THEN <<TransferTopic, zeroPadValue(opts.from)>>
        ELSE IF opts.to # NoAddress THEN <<TransferTopic, Null, zeroPadValue(opts.to)>>
        ELSE <<TransferTopic>>]

\* the filter of the command: the range, the Transfer signature, the contract
\* and the sender and receiver topics that were asked for
BuildFilter(opts, fromBlock, toBlock) ==
    [fromBlock |-> fromBlock,
     toBlock   |-> toBlock,
     address   |-> opts.contract,
     topics    |->
        IF opts.from # NoAddress /\ opts.to # NoAddress
        THEN <<TransferTopic, zeroPadValue(opts.from), zeroPadValue(opts.to)>>
        ELSE IF opts.from # NoAddress THEN <<TransferTopic, zeroPadValue(opts.from)>>
        ELSE IF opts.to # NoAddress THEN <<TransferTopic, Null, zeroPadValue(opts.to)>>
        ELSE <<TransferTopic>>]

\* `!log.topics || log.topics.length < 3`
TooFewTopics(log) == Len(log.topics) < 3

EmptyDataOnlyPrefix(log) == log.data = <<"0", "x">>

\* `!log.data || log.data === '0x'`
EmptyData(log) == log.data = <<>> \/ log.data = <<"0", "x">>

\* contract.symbol() and contract.decimals(): the call returns the token's
\* value or is rejected; a contract without the method always rejects
SymbolCall(c, address) ==
    {[kind |-> "throw"]} \cup
    (IF c.tokens[address.hex] = Null THEN {}
     ELSE {[kind |-> "return", value |-> c.tokens[address.hex].symbol]})

DecimalsCall(c, address) ==
    {[kind |-> "throw"]} \cup
    (IF c.tokens[address.hex] = Null THEN {}
     ELSE {[kind |-> "return", value |-> c.tokens[address.hex].decimals]})

CatchDropsBoth(symbolOut, decimalsOut) ==
    IF symbolOut.kind = "throw" \/ decimalsOut.kind = "throw"
    THEN [symbol |-> "UNKNOWN", decimals |-> 18]
    ELSE [symbol |-> symbolOut.value, decimals |-> decimalsOut.value]

\* Promise.all([symbol().catch(() => 'UNKNOWN'), decimals().catch(() => 18)])
TokenInfo(symbolOut, decimalsOut) ==
    [symbol   |-> IF symbolOut.kind = "throw" THEN "UNKNOWN" ELSE symbolOut.value,
     decimals |-> IF decimalsOut.kind = "throw" THEN 18 ELSE decimalsOut.value]

\* the TransferEvent built from a log
DecodeLog(log, info) ==
    [contractAddress |-> log.address,
     from            |-> AddressOfTopic(log.topics[2]),
     to              |-> AddressOfTopic(log.topics[3]),
     value           |-> IntChars(BigInt(log.data)),
     blockNumber     |-> log.blockNumber,
     transactionHash |-> log.transactionHash,
     logIndex        |-> log.index,
     tokenSymbol     |-> info.symbol,
     tokenDecimals   |-> info.decimals]

(***************************************************************************)
(* Maps and rankings.  A Map is the sequence of its entries in insertion   *)
(* order, as Array.from(map.entries()) lists them.                         *)
(***************************************************************************)
HasKey(m, key) == \E j \in 1..Len(m) : m[j].key = key

IndexOfKey(m, key) == CHOOSE j \in 1..Len(m) : m[j].key = key

\* the key `${event.tokenSymbol} (${event.contractAddress})`
VolumeKey(event) == [symbol |-> event.tokenSymbol, contract |-> event.contractAddress]

\* tokenVolumes after the loop over the events
RECURSIVE tokenVolumes(_)
tokenVolumes(events) ==
    IF events = <<>> THEN <<>>
    ELSE LET m     == tokenVolumes(SubSeq(events, 1, Len(events) - 1))
             event == events[Len(events)]
             key   == VolumeKey(event)
         IN  IF HasKey(m, key)
             THEN [m EXCEPT ![IndexOfKey(m, key)].volume = @ + BigInt(event.value)]
             ELSE Append(m, [key |-> key, volume |-> BigInt(event.value)])

Orders(n) == {f \in [1..n -> 1..n] : \A i, j \in 1..n : f[i] = f[j] => i = j}

\* the comparator `(a, b) => (b.volume > a.volume ? 1 : -1)`, on the volumes
CompareVolumes(va, vb) == IF vb > va THEN 1 ELSE -1

\* Array.prototype.sort(comparefn): the orders an implementation can produce.
\* Two elements that comparefn orders consistently (one call negative, the
\* mirrored call positive) come out in that order; the order of two elements
\* it does not order consistently is implementation-defined.
SortOutcomes(a, volumes) ==
    LET n  == Len(a)
        Ok(f) == \A i, j \in 1..n :
                    i < j => ~(/\ CompareVolumes(volumes[f[j]], volumes[f[i]]) < 0
                               /\ CompareVolumes(volumes[f[i]], volumes[f[j]]) > 0)
    IN  { [k \in 1..n |-> a[f[k]]] : f \in {g \in Orders(n) : Ok(g)} }

\* Array.prototype.slice(0, end), end a JS number (NaN counts as 0, a negative
\* end counts from the end of the array)
slice(a, end) ==
    LET e == IF IsNaN(end) THEN 0
             ELSE IF NumLt(end, Small(0))
                  THEN (IF NumLt(NumAdd(end, Small(Len(a))), Small(0)) THEN 0
                        ELSE NumToInt(NumAdd(end, Small(Len(a)))))
             ELSE IF NumGt(end, Small(Len(a))) THEN Len(a) ELSE NumToInt(end)
    IN  SubSeq(a, 1, e)

VolumeOf(entry) == entry.volume

\* the rows handed to saveToCsv by the event scan
EventCsvRows(events) ==
    [k \in 1..Len(events) |->
        [contractAddress |-> events[k].contractAddress,
         tokenSymbol     |-> IF events[k].tokenSymbol = "" THEN "UNKNOWN"
                             ELSE events[k].tokenSymbol,
         from            |-> events[k].from,
         to              |-> events[k].to,
         value           |-> events[k].value,
         blockNumber     |-> events[k].blockNumber,
         transactionHash |-> events[k].transactionHash,
         logIndex        |-> events[k].logIndex]]

\* parse and validate the options, build the filter, start getLogs
EventsStart ==
    /\ pc = "start"
    /\ caller = "events"
    /\ startBlock' = parseInt(options.start)
    /\ endBlock' = parseInt(options.end)
    /\ IF \/ ~isValidBlockNumber(startBlock') \/ ~isValidBlockNumber(endBlock')
          \/ NumGt(startBlock', endBlock')
          \/ (options.contract # NoAddress /\ ~isValidAddress(options.contract))
          \/ (options.from # NoAddress /\ ~isValidAddress(options.from))
          \/ (options.to # NoAddress /\ ~isValidAddress(options.to))
       THEN /\ Exit(1)
            /\ UNCHANGED retry
       ELSE /\ retry' = retryOperation("getLogs", BuildFilter(options, startBlock', endBlock'),
                                       DefaultMaxRetries, DefaultDelay)
            /\ pc' = "getLogs"
            /\ UNCHANGED exitCode
    /\ UNCHANGED <<chain, rpcCalls, searchVars, options, currentBlock, reported, saved,
                   minValueWei, batchBlock, blockPromises, ethTransfers, processedBlocks, csv,
                   issued, settleOrder, failedBlocks, faults, otherVars>>

\* a catch clause that reports the error and lets the command end normally
EventsCatchSwallows ==
    /\ Exit(0)
    /\ UNCHANGED logs

\* `catch (error) { console.error(...); process.exit(1); }` of the action
EventsCatch ==
    /\ Exit(1)
    /\ UNCHANGED logs

\* getLogs settled: its error goes to the catch clause of the action, an empty
\* list ends the command, any other list enters the log loop
EventsLogs ==
    /\ pc = "getLogs"
    /\ RetryDone(retry)
    /\ IF retry.phase = "returned"
       THEN /\ logs' = retry.value
            /\ IF Len(logs'.list) = 0
               THEN Exit(0)
               ELSE pc' = "logLoop" /\ UNCHANGED exitCode
       ELSE EventsCatch
    /\ retry' = NoRetry
    /\ UNCHANGED <<chain, rpcCalls, searchVars, options, currentBlock, reported, saved, fetchVars,
                   logPos, transferEvents, metaLog, topTokens, jsonSaved, analyzeVars, rerunVars, historyVars, solidityVars>>

\* one pass of `for (const log of logs)`
ProcessLog ==
    /\ pc = "logLoop"
    /\ logPos < Len(logs.list)
    /\ LET log == logs.list[logPos + 1] IN
       IF TooFewTopics(log) \/ EmptyData(log) \/ BigIntThrows(log.data)
       THEN UNCHANGED <<transferEvents, metaLog, rpcCalls>>
       ELSE \E symbolOut \in SymbolCall(chain, log.address),
               decimalsOut \in DecimalsCall(chain, log.address) :
              /\ transferEvents' =
                    Append(transferEvents, DecodeLog(log, TokenInfo(symbolOut, decimalsOut)))
              /\ metaLog' = Append(metaLog, [log |-> logPos + 1, contract |-> log.address,
                                             symbol |-> symbolOut, decimals |-> decimalsOut])
              /\ rpcCalls' = rpcCalls + 2
    /\ logPos' = logPos + 1
    /\ UNCHANGED <<pc, chain, retry, searchVars, findVars, fetchVars, logs, topTokens, jsonSaved,
                   analyzeVars, rerunVars, historyVars, solidityVars>>

\* after the loop: the summary with the top five tokens, the CSV, the JSON
EventsFinish ==
    /\ pc = "logLoop"
    /\ logPos = Len(logs.list)
    /\ \E sorted \in SortOutcomes(tokenVolumes(transferEvents),
                                   [k \in 1..Len(tokenVolumes(transferEvents)) |->
                                       VolumeOf(tokenVolumes(transferEvents)[k])]) :
          topTokens' = slice(sorted, Small(5))
    /\ csv' = [kind |-> "csv", rows |-> EventCsvRows(transferEvents)]
    /\ jsonSaved' = IF options.json THEN transferEvents ELSE Null
    /\ Exit(0)
    /\ UNCHANGED <<chain, retryVars, searchVars, options, currentBlock, reported, saved,
                   startBlock, endBlock, minValueWei, batchBlock, blockPromises, ethTransfers,
                   processedBlocks, issued, settleOrder, failedBlocks, faults,
                   logs, logPos, transferEvents, metaLog, analyzeVars, rerunVars, historyVars, solidityVars>>

(***************************************************************************)
(* Inputs of the event scan                                                *)
(***************************************************************************)
\* a raw log of block b, the i-th of the chain
Log(address, topics, hexData, b, i) ==
    [address |-> Addr(address, "checksum"), topics |-> topics, data |-> hexData,
     blockNumber |-> Small(b), transactionHash |-> <<"tx", b, i>>, index |-> i]

\* Transfer(from, to, value) with both addresses indexed
TransferLog(address, from, to, hexData, b, i) ==
    Log(address, <<TransferTopic, Topic(from), Topic(to)>>, hexData, b, i)

\* two ERC-20 transfers, a Transfer log with no indexed argument, an ERC-721
\* transfer (four topics, no data) and a last ERC-20 transfer, over blocks 0..3
ChainLogs ==
    << TransferLog(Usdc, Vitalik, Binance, <<"0", "x", "0", "5">>, 0, 1),
       TransferLog(Coinbase, Binance, Vitalik, <<"0", "x", "0", "a">>, 1, 2),
       Log(Usdc, <<TransferTopic>>, <<"0", "x", "0", "7">>, 1, 3),
       Log(Coinbase, <<TransferTopic, Topic(Vitalik), Topic(Binance), Topic(Usdc)>>,
           <<"0", "x">>, 2, 4),
       TransferLog(Usdc, Vitalik, Coinbase, <<"0", "x", "0", "5">>, 3, 5) >>

\* what symbol() and decimals() of a contract return (Null: not implemented)
TokenTables ==
    { [h \in Hex20 |-> IF h = Usdc THEN [symbol |-> "USDC", decimals |-> 6] ELSE Null],
      [h \in Hex20 |-> IF h = Usdc THEN [symbol |-> "USDC", decimals |-> 6]
                       ELSE IF h = Coinbase THEN [symbol |-> "USDC", decimals |-> 18]
                       ELSE Null] }

\* the same kinds of logs in another order, the data of one of them missing
OtherChainLogs ==
    << Log(Usdc, <<TransferTopic, Topic(Vitalik)>>, <<"0", "x", "0", "7">>, 0, 1),
       TransferLog(Coinbase, Binance, Vitalik, <<>>, 0, 2),
       TransferLog(Usdc, Vitalik, Binance, <<"0", "x", "1", "0">>, 2, 3),
       TransferLog(Usdc, Binance, Vitalik, <<"0", "x", "0", "5">>, 2, 4),
       TransferLog(Coinbase, Vitalik, Binance, <<"0", "x", "0", "5">>, 3, 5) >>

EventChains ==
    { [head   |-> Small(MaxScanBlock - 1),
       segs   |-> <<[start |-> Small(0), ts |-> Small(ExampleTimestamp)]>>,
       logs   |-> l,
       tokens |-> t] : l \in {ChainLogs, OtherChainLogs}, t \in TokenTables }

EventOptions ==
    { [start |-> st, end |-> en, contract |-> c, from |-> f, to |-> t, json |-> j] :
        st \in BlockStrings, en \in BlockStrings,
        c \in {NoAddress, Addr(Usdc, "lower"), Addr(Coinbase, "checksum"), Addr(Usdc, "badmix")},
        f \in {NoAddress, Addr(Vitalik, "lower"), Addr("123", "lower")},
        t \in {NoAddress, Addr(Binance, "upper")},
        j \in BOOLEAN }

InitEvents ==
    /\ chain \in EventChains
    /\ options \in EventOptions
    /\ pc = "start"
    /\ caller = "events"
    /\ retry = NoRetry
    /\ rpcCalls = 0
    /\ targetTimestamp = NaN
    /\ range = [low |-> Small(0), high |-> Small(0)]
    /\ low = Small(0)
    /\ high = Small(0)
    /\ mid = Small(0)
    /\ result = Null
    /\ iterations = 0
    /\ probes = 0
    /\ searchError = FALSE
    /\ currentBlock = Null
    /\ reported = Null
    /\ saved = Null
    /\ exitCode = -1
    /\ FetchIdle
    /\ OtherIdle

NextEvents ==
    \/ EventsStart
    \/ RetryAttempt
    \/ RetrySleep
    \/ EventsLogs
    \/ ProcessLog
    \/ EventsFinish

SpecEvents == InitEvents /\ [][NextEvents]_vars

(***************************************************************************)
(* The two scan commands, each possibly invoked a second time with the     *)
(* same options on the same chain                                          *)
(***************************************************************************)
\* the event sequence of the invocation that just ended
ScanOutput == IF caller = "fetch" THEN ethTransfers ELSE transferEvents

\* every RPC operation of the invocation got its answer, at once or on a
\* retry: getLogs returned, no block was lost to a failed fetch, no symbol()
\* or decimals() call was rejected
AllCallsSucceeded ==
    /\ caller = "events" => logs # Null
    /\ \A b \in failedBlocks : NumGt(b, chain.head)
    /\ \A j \in 1..Len(metaLog) :
          metaLog[j].symbol.kind = "return" /\ metaLog[j].decimals.kind = "return"

\* the same command line is run again after a successful first invocation
RunAgain ==
    /\ pc = "exit"
    /\ exitCode = 0
    /\ run = 1
    /\ run' = 2
    /\ firstOutput' = [kind |-> "output", events |-> ScanOutput, clean |-> AllCallsSucceeded]
    /\ pc' = "start"
    /\ exitCode' = -1
    /\ retry' = NoRetry
    /\ rpcCalls' = 0
    /\ startBlock' = NaN
    /\ endBlock' = NaN
    /\ minValueWei' = ZeroWei
    /\ batchBlock' = NaN
    /\ blockPromises' = <<>>
    /\ ethTransfers' = <<>>
    /\ processedBlocks' = 0
    /\ csv' = Null
    /\ issued' = {}
    /\ settleOrder' = <<>>
    /\ failedBlocks' = {}
    /\ faults' = 0
    /\ logs' = Null
    /\ logPos' = 0
    /\ transferEvents' = <<>>
    /\ metaLog' = <<>>
    /\ topTokens' = <<>>
    /\ jsonSaved' = Null
    /\ UNCHANGED <<chain, searchVars, options, currentBlock, reported, saved, analyzeVars,
                   historyVars, solidityVars>>

InitScans == InitFetch \/ InitEvents

NextScans ==
    \/ NextFetch
    \/ NextEvents
    \/ RunAgain

SpecScans == InitScans /\ [][NextScans]_vars

\* C11: when a scan (native or event mode) is run a second time with the same
\* range and filters on the same chain, and every RPC call of both runs was
\* answered, the second run ends normally with the same event sequence, in
\* content and in order, as the first.
C11_ScanIdempotent ==
    (run = 2 /\ pc = "exit" /\ firstOutput.clean /\ AllCallsSucceeded)
        => (exitCode = 0 /\ ScanOutput = firstOutput.events)

\* a second event scan ended with the same two or more events as the first
C11_Witness ==
    /\ run = 2 /\ pc = "exit" /\ firstOutput.clean /\ AllCallsSucceeded
    /\ caller = "events"
    /\ Len(transferEvents) >= 2
    /\ transferEvents = firstOutput.events

\* a second native scan ended with the same transfers, of two blocks, as the first
C11_WitnessNative ==
    /\ run = 2 /\ pc = "exit" /\ firstOutput.clean /\ AllCallsSucceeded
    /\ caller = "fetch"
    /\ \E i, j \in 1..Len(ethTransfers) : ethTransfers[i].blockNumber # ethTransfers[j].blockNumber
    /\ ethTransfers = firstOutput.events

(***************************************************************************)
(* Properties of the event scan                                            *)
(***************************************************************************)
\* the event scan ran to its end (with or without logs)
EventScanDone == caller = "events" /\ pc = "exit" /\ exitCode = 0

\* an event without its token metadata
Stripped(event) == [event EXCEPT !.tokenSymbol = "UNKNOWN", !.tokenDecimals = 18]

StrippedAll(events) == [j \in 1..Len(events) |-> Stripped(events[j])]

\* symbol and decimals as the contract answers them (the defaults if it has neither)
AnsweredInfo(c, address) ==
    IF c.tokens[address.hex] = Null THEN [symbol |-> "UNKNOWN", decimals |-> 18]
    ELSE c.tokens[address.hex]

WellFormed(log) == Len(log.topics) >= 3 /\ log.data # <<>> /\ log.data # <<"0", "x">>

\* the well-formed logs of a list, decoded, in their order
DecodedLogs(list) ==
    LET good == SelectSeq(list, WellFormed)
    IN  [j \in 1..Len(good) |-> DecodeLog(good[j], AnsweredInfo(chain, good[j].address))]

\* the output of the scan of the same range with the same sender and receiver
\* filters and no contract filter
UnfilteredOutput ==
    DecodedLogs(getLogs(chain, BuildFilter([options EXCEPT !.contract = NoAddress],
                                           startBlock, endBlock)))

SameContract(event) == options.contract = NoAddress \/ event.contractAddress.hex = options.contract.hex

\* C12: the output of an event scan with contract filter C is the subsequence
\* of the output of the unfiltered scan of the same range made of the events
\* whose contractAddress is C (as an address, whatever the capitalisation of
\* its hex digits); without a contract filter the output is that of the
\* unfiltered scan.  Token metadata is compared when every metadata call was
\* answered, the other fields always.
C12_ContractFilterLaw ==
    EventScanDone =>
        /\ StrippedAll(transferEvents) = StrippedAll(SelectSeq(UnfilteredOutput, SameContract))
        /\ AllCallsSucceeded => transferEvents = SelectSeq(UnfilteredOutput, SameContract)

\* a scan filtered on the USDC contract returned two events, fewer than the
\* unfiltered scan of the range has
C12_Witness ==
    /\ EventScanDone /\ AllCallsSucceeded
    /\ options.contract = Addr(Usdc, "lower")
    /\ Len(transferEvents) = 2
    /\ Len(UnfilteredOutput) = 3

\* C13: once getLogs has returned, the scan never ends in failure; at every
\* point of the log loop the output is the decoded well-formed logs among
\* those gone through, in their order (a log with fewer than 3 topics or with
\* empty data has added nothing); and the scan ends only after the whole list.
C13_MalformedLogsSkipped ==
    (caller = "events" /\ logs # Null) =>
        /\ exitCode # 1
        /\ StrippedAll(transferEvents) = StrippedAll(DecodedLogs(SubSeq(logs.list, 1, logPos)))
        /\ (pc = "exit" /\ Len(logs.list) > 0) => (exitCode = 0 /\ logPos = Len(logs.list))

\* a scan ended with events decoded before and after a log with one topic and
\* a log without data had been gone through
C13_Witness ==
    /\ EventScanDone /\ logs # Null
    /\ \E i, j, k \in 1..Len(logs.list) :
          /\ i < j /\ j < k
          /\ WellFormed(logs.list[i])
          /\ ~WellFormed(logs.list[j])
          /\ WellFormed(logs.list[k])
    /\ \E j \in 1..Len(logs.list) : Len(logs.list[j].topics) < 3
    /\ \E j \in 1..Len(logs.list) : logs.list[j].data \in {<<>>, <<"0", "x">>}
    /\ Len(transferEvents) >= 2
    /\ Len(transferEvents) < Len(logs.list)

\* C14: every log that reached the metadata calls has its event in the output,
\* whatever the two calls did: a rejected symbol() gives tokenSymbol "UNKNOWN"
\* and an answered one the contract's symbol, a rejected decimals() gives
\* tokenDecimals 18 and an answered one the contract's decimals, each whatever
\* the outcome of the other call; and the scan does not end in failure.
C14_MetadataDefaults ==
    (caller = "events" /\ logs # Null) =>
        /\ exitCode # 1
        /\ Len(transferEvents) = Len(metaLog)
        /\ \A j \in 1..Len(metaLog) :
              LET m == metaLog[j]
                  e == transferEvents[j]
              IN  /\ Stripped(e) = Stripped(DecodeLog(logs.list[m.log], AnsweredInfo(chain, m.contract)))
                  /\ e.tokenSymbol = IF m.symbol.kind = "throw" THEN "UNKNOWN"
                                     ELSE chain.tokens[m.contract.hex].symbol
                  /\ e.tokenDecimals = IF m.decimals.kind = "throw" THEN 18
                                       ELSE chain.tokens[m.contract.hex].decimals

\* a scan ended with an event whose symbol() failed while decimals() answered 6,
\* and with another whose decimals() failed while symbol() answered
C14_Witness ==
    /\ EventScanDone
    /\ \E i, j \in 1..Len(metaLog) :
          /\ metaLog[i].symbol.kind = "throw" /\ metaLog[i].decimals.kind = "return"
          /\ transferEvents[i].tokenSymbol = "UNKNOWN" /\ transferEvents[i].tokenDecimals = 6
          /\ metaLog[j].symbol.kind = "return" /\ metaLog[j].decimals.kind = "throw"
          /\ transferEvents[j].tokenSymbol = "USDC" /\ transferEvents[j].tokenDecimals = 18

(***************************************************************************)
(* The `analyze` command of transfer-events.ts                             *)
(***************************************************************************)
\* the columns of the CSV file of an event scan
Headers ==
    <<"contractAddress", "tokenSymbol", "from", "to", "value", "blockNumber",
      "transactionHash", "logIndex">>

\* row[header], for the rows handed to saveToCsv
FieldOf(row, header) ==
    CASE header = "contractAddress" -> row.contractAddress
      [] header = "tokenSymbol"     -> row.tokenSymbol
      [] header = "from"            -> row.from
      [] header = "to"              -> row.to
      [] header = "value"           -> row.value
      [] header = "blockNumber"     -> row.blockNumber
      [] header = "transactionHash" -> row.transactionHash
      [] header = "logIndex"        -> row.logIndex

\* saveToCsv: the header line, then one line per row with the values in header
\* order; a line is the sequence of its comma-separated fields
CsvLines(rows, headers) ==
    <<headers>> \o [k \in 1..Len(rows) |-> [i \in 1..Len(headers) |-> FieldOf(rows[k], headers[i])]]

\* the parse of analyze: the first line names the columns, every other line is
\* an object with the value of column i under the name of column i
ParseCsv(lines) ==
    LET headers == lines[1] IN
    [k \in 1..(Len(lines) - 1) |->
        [h \in {headers[i] : i \in 1..Len(headers)} |->
            lines[k + 1][CHOOSE i \in 1..Len(headers) : headers[i] = h]]]

\* `row.tokenSymbol || 'UNKNOWN'`
TokenOf(row) == IF row.tokenSymbol = "" THEN "UNKNOWN" ELSE row.tokenSymbol

\* `row.value || '0'`
ValueString(row) == IF row.value = <<>> THEN <<"0">> ELSE row.value

\* the token loop body: tokenStats keyed by `token`
UpdateTokenStats(m, row) ==
    LET token == TokenOf(row)
        m1    == IF HasKey(m, token) THEN m
                 ELSE Append(m, [key |-> token, count |-> 0, volume |-> 0, contracts |-> {}])
        j     == IndexOfKey(m1, token)
    IN  [m1 EXCEPT ![j].count = @ + 1,
                   ![j].volume = @ + BigInt(ValueString(row)),
                   ![j].contracts = @ \cup {row.contractAddress}]

NewAddressStats(address) ==
    [key |-> address, sent |-> 0, received |-> 0, sentCount |-> 0, receivedCount |-> 0]

UpdateReceiverOverwrites(m, row) ==
    LET m1 == IF HasKey(m, row.to) THEN m ELSE Append(m, NewAddressStats(row.to))
        j  == IndexOfKey(m1, row.to)
    IN  [m1 EXCEPT ![j].received = BigInt(ValueString(row)), ![j].receivedCount = @ + 1]

UpdateSenderOverwrites(m, row) ==
    LET m1 == IF HasKey(m, row.from) THEN m ELSE Append(m, NewAddressStats(row.from))
        j  == IndexOfKey(m1, row.from)
    IN  [m1 EXCEPT ![j].sent = BigInt(ValueString(row)), ![j].sentCount = @ + 1]

\* `fromStats.sent += value; fromStats.sentCount++`
UpdateSender(m, row) ==
    LET m1 == IF HasKey(m, row.from) THEN m ELSE Append(m, NewAddressStats(row.from))
        j  == IndexOfKey(m1, row.from)
    IN  [m1 EXCEPT ![j].sent = @ + BigInt(ValueString(row)), ![j].sentCount = @ + 1]

\* `toStats.received += value; toStats.receivedCount++`
UpdateReceiver(m, row) ==
    LET m1 == IF HasKey(m, row.to) THEN m ELSE Append(m, NewAddressStats(row.to))
        j  == IndexOfKey(m1, row.to)
    IN  [m1 EXCEPT ![j].received = @ + BigInt(ValueString(row)), ![j].receivedCount = @ + 1]

\* `b[1].sent + b[1].received`
ActivityOf(entry) == entry.sent + entry.received

\* what the command prints for an address: Sent, Received and Net
PrintedAddress(entry) ==
    [address |-> entry.key, sent |-> entry.sent, sentCount |-> entry.sentCount,
     received |-> entry.received, receivedCount |-> entry.receivedCount,
     net |-> entry.received - entry.sent]

\* the sum of a sequence of integers
RECURSIVE SumSeq(_)
SumSeq(ns) == IF ns = <<>> THEN 0 ELSE Head(ns) + SumSeq(Tail(ns))

\* the number of rows the token loop, the address loop has gone through
TokenRowsDone == SumSeq([j \in 1..Len(tokenStats) |-> tokenStats[j].count])

AddressRowsDone == SumSeq([j \in 1..Len(addressStats) |-> addressStats[j].sentCount])

\* the file is read and parsed (or is not there)
AnalyzeStart ==
    /\ pc = "start"
    /\ caller = "analyze"
    /\ IF csv = Null
       THEN /\ Exit(1)
            /\ UNCHANGED data
       ELSE /\ data' = ParseCsv(CsvLines(csv.rows, Headers))
            /\ pc' = "tokens"
            /\ UNCHANGED exitCode
    /\ UNCHANGED <<chain, retryVars, searchVars, options, currentBlock, reported, saved,
                   fetchVars, eventVars, topN, tokenStats, sortedTokens, addressStats,
                   sortedAddresses, rerunVars, historyVars, solidityVars>>

\* one pass of the token loop; BigInt throws on a value that is not a number
AnalyzeTokenRow ==
    /\ pc = "tokens"
    /\ TokenRowsDone < Len(data)
    /\ LET row == data[TokenRowsDone + 1] IN
       IF BigIntThrows(ValueString(row))
       THEN /\ Exit(1)
            /\ UNCHANGED tokenStats
       ELSE /\ tokenStats' = UpdateTokenStats(tokenStats, row)
            /\ UNCHANGED <<pc, exitCode>>
    /\ UNCHANGED <<chain, retryVars, searchVars, options, currentBlock, reported, saved,
                   fetchVars, eventVars, data, topN, sortedTokens, addressStats,
                   sortedAddresses, rerunVars, historyVars, solidityVars>>

\* after the token loop: topN, the ranking of the tokens
AnalyzeTokensSorted ==
    /\ pc = "tokens"
    /\ TokenRowsDone = Len(data)
    /\ topN' = parseInt(options.topN)
    /\ \E sorted \in SortOutcomes(tokenStats,
                                   [k \in 1..Len(tokenStats) |-> VolumeOf(tokenStats[k])]) :
          sortedTokens' = slice(sorted, topN')
    /\ pc' = "addresses"
    /\ UNCHANGED <<chain, retryVars, searchVars, findVars, fetchVars, eventVars, data,
                   tokenStats, addressStats, sortedAddresses, rerunVars, historyVars, solidityVars>>

\* one pass of the address loop
AnalyzeAddressRow ==
    /\ pc = "addresses"
    /\ AddressRowsDone < Len(data)
    /\ LET row == data[AddressRowsDone + 1] IN
          addressStats' = UpdateReceiver(UpdateSender(addressStats, row), row)
    /\ UNCHANGED <<pc, chain, retryVars, searchVars, findVars, fetchVars, eventVars, data, topN,
                   tokenStats, sortedTokens, sortedAddresses, rerunVars, historyVars, solidityVars>>

\* after the address loop: the ranking of the addresses, printed with their net
AnalyzeFinish ==
    /\ pc = "addresses"
    /\ AddressRowsDone = Len(data)
    /\ \E sorted \in SortOutcomes(addressStats,
                                   [k \in 1..Len(addressStats) |-> ActivityOf(addressStats[k])]) :
          LET top == slice(sorted, topN)
          IN  sortedAddresses' = [k \in 1..Len(top) |-> PrintedAddress(top[k])]
    /\ Exit(0)
    /\ UNCHANGED <<chain, retryVars, searchVars, options, currentBlock, reported, saved,
                   fetchVars, eventVars, data, topN, tokenStats, sortedTokens, addressStats,
                   rerunVars, historyVars, solidityVars>>

(***************************************************************************)
(* Inputs of analyze                                                       *)
(***************************************************************************)
MaxRows == 3

\* a row of the CSV file of an event scan
Row(symbol, contract, from, to, value) ==
    [contractAddress |-> Addr(contract, "checksum"), tokenSymbol |-> symbol,
     from |-> Addr(from, "checksum"), to |-> Addr(to, "checksum"), value |-> value,
     blockNumber |-> Small(0), transactionHash |-> <<"tx", 0, 1>>, logIndex |-> 1]

\* USDC at two contracts, a self-transfer, a row without symbol and value
RowPool ==
    { Row("USDC", Usdc, Vitalik, Binance, <<"5">>),
      Row("USDC", Coinbase, Binance, Vitalik, <<"5">>),
      Row("DAI", Binance, Vitalik, Vitalik, <<"1", "0">>),
      Row("", Usdc, Coinbase, Vitalik, <<>>),
      Row("USDC", Usdc, Binance, Coinbase, <<"1", "0">>),
      Row("DAI", Binance, Coinbase, Binance, <<"5">>),
      Row("WETH", Vitalik, Binance, Coinbase, <<"a", "b", "c">>) }

Files ==
    {Null} \cup
    { [kind |-> "csv", rows |-> rows] : rows \in UNION {[1..n -> RowPool] : n \in 0..MaxRows} }

InitAnalyze ==
    /\ csv \in Files
    /\ options \in {[topN |-> n] : n \in {<<"1", "0">>, <<"2">>, <<"1">>, <<"a", "b", "c">>}}
    /\ chain = Null
    /\ pc = "start"
    /\ caller = "analyze"
    /\ retry = NoRetry
    /\ rpcCalls = 0
    /\ targetTimestamp = NaN
    /\ range = [low |-> Small(0), high |-> Small(0)]
    /\ low = Small(0)
    /\ high = Small(0)
    /\ mid = Small(0)
    /\ result = Null
    /\ iterations = 0
    /\ probes = 0
    /\ searchError = FALSE
    /\ currentBlock = Null
    /\ reported = Null
    /\ saved = Null
    /\ exitCode = -1
    /\ startBlock = NaN
    /\ endBlock = NaN
    /\ minValueWei = ZeroWei
    /\ batchBlock = NaN
    /\ blockPromises = <<>>
    /\ ethTransfers = <<>>
    /\ processedBlocks = 0
    /\ issued = {}
    /\ settleOrder = <<>>
    /\ failedBlocks = {}
    /\ faults = 0
    /\ OtherIdle

NextAnalyze ==
    \/ AnalyzeStart
    \/ AnalyzeTokenRow
    \/ AnalyzeTokensSorted
    \/ AnalyzeAddressRow
    \/ AnalyzeFinish

SpecAnalyze == InitAnalyze /\ [][NextAnalyze]_vars

(***************************************************************************)
(* Properties of analyze                                                   *)
(***************************************************************************)
\* the sum of the values of a list of rows
Total(rows) == SumSeq([j \in 1..Len(rows) |-> BigInt(ValueString(rows[j]))])

SentBy(rows, a) == Total(SelectSeq(rows, LAMBDA r : r.from = a))

ReceivedBy(rows, a) == Total(SelectSeq(rows, LAMBDA r : r.to = a))

RowsOfToken(rows, token) == SelectSeq(rows, LAMBDA r : TokenOf(r) = token)

\* the per-token volumes restricted to the sends of a, summed over the tokens
PerTokenSentBy(rows, a) ==
    SumSeq([t \in 1..Len(tokenStats) |-> SentBy(RowsOfToken(rows, tokenStats[t].key), a)])

\* C15: while and after the address loop runs, every address that sent or
\* received in the rows gone through has an entry whose `sent` is the sum of
\* the values of exactly the rows it sent and whose `received` is the sum of
\* those it received; after the loop `sent` also equals the per-token volumes
\* restricted to its sends, each token's volume being the sum of its rows; and
\* the Net printed for an address is its received minus its sent.
C15_AggregationTotals ==
    (caller = "analyze" /\ pc \in {"addresses", "exit"} /\ TokenRowsDone = Len(data)) =>
        LET rows == SubSeq(data, 1, AddressRowsDone) IN
        /\ \A j \in 1..Len(rows) : HasKey(addressStats, rows[j].from) /\ HasKey(addressStats, rows[j].to)
        /\ \A j \in 1..Len(addressStats) :
              /\ addressStats[j].sent = SentBy(rows, addressStats[j].key)
              /\ addressStats[j].received = ReceivedBy(rows, addressStats[j].key)
        /\ \A t \in 1..Len(tokenStats) :
              tokenStats[t].volume = Total(RowsOfToken(data, tokenStats[t].key))
        /\ (pc = "exit" /\ exitCode = 0) =>
              /\ \A j \in 1..Len(addressStats) :
                    addressStats[j].sent = PerTokenSentBy(data, addressStats[j].key)
              /\ \A k \in 1..Len(sortedAddresses) :
                    /\ sortedAddresses[k].sent = SentBy(data, sortedAddresses[k].address)
                    /\ sortedAddresses[k].received = ReceivedBy(data, sortedAddresses[k].address)
                    /\ sortedAddresses[k].net =
                          ReceivedBy(data, sortedAddresses[k].address)
                            - SentBy(data, sortedAddresses[k].address)

\* three rows were analysed, one of them a self-transfer, and an address that
\* both sent and received is printed with a negative net
C15_Witness ==
    /\ caller = "analyze" /\ pc = "exit" /\ exitCode = 0
    /\ Len(data) = 3
    /\ \E j \in 1..Len(data) : data[j].from = data[j].to
    /\ \E k \in 1..Len(sortedAddresses) :
          /\ sortedAddresses[k].sent > 0
          /\ sortedAddresses[k].received > 0
          /\ sortedAddresses[k].net < 0

\* C16 as stated: count and volume are never merged across contracts, that is,
\* every entry of the per-token statistics accumulates rows of one contract.
C16_TokenKeyIncludesContract ==
    caller = "analyze" =>
        \A t \in 1..Len(tokenStats) : Cardinality(tokenStats[t].contracts) <= 1

\* the entries in descending order of volume, entries of equal volume in
\* insertion order: the result of a stable sort
RECURSIVE StableDescending(_)
StableDescending(m) ==
    IF m = <<>> THEN <<>>
    ELSE LET top == CHOOSE j \in 1..Len(m) :
                        /\ \A k \in 1..Len(m) : m[k].volume <= m[j].volume
                        /\ \A k \in 1..(j - 1) : m[k].volume < m[j].volume
         IN  <<m[top]>> \o StableDescending([k \in 1..(Len(m) - 1) |->
                                               IF k < top THEN m[k] ELSE m[k + 1]])

\* C17 as stated: the ranking of the tokens is the stable descending sort of
\* the per-token statistics by volume, cut to the first topN entries.
C17_StableRanking ==
    (caller = "analyze" /\ pc \in {"addresses", "exit"} /\ TokenRowsDone = Len(data)) =>
        sortedTokens = slice(StableDescending(tokenStats), topN)


(***************************************************************************)
(* Input validation and the top-level failure of the event scan            *)
(***************************************************************************)
\* the --address of this invocation is given and is not a 20-byte address
MalformedAddress ==
    /\ options.address # NoAddress
    /\ ~isValidAddress(options.address)

\* C18 as stated: in a command that takes an address (here `find`), a
\* malformed address is rejected with a failure before any network call is
\* issued: no call is ever placed, and the invocation ends with exit code 1.
C18_MalformedAddressRejectedFirst ==
    (caller = "find" /\ MalformedAddress) =>
        /\ rpcCalls = 0
        /\ pc = "exit" => exitCode = 1



\* the --start and --end of this invocation do not give a range: one of them
\* is not a number, or is negative, or start is above end
BadRange ==
    LET s == parseInt(options.start)
        e == parseInt(options.end)
    IN  \/ IsNaN(s) \/ IsNaN(e)
        \/ NumLt(s, Small(0)) \/ NumLt(e, Small(0))
        \/ NumGt(s, e)

\* C19: no range operation reaches the network with fromBlock > toBlock.  In
\* both scan modes an invocation whose start is above its end, or whose block
\* numbers are not numbers or are negative, places no RPC call and starts no
\* retry, and it ends with exit code 1; every getLogs request and every block
\* fetch that is issued lies in a range with start <= end.
C19_RangeValidatedFirst ==
    /\ (caller \in {"fetch", "events"} /\ BadRange) =>
          /\ rpcCalls = 0
          /\ retry = NoRetry
          /\ issued = {}
          /\ blockPromises = <<>>
          /\ pc \in {"start", "exit"}
          /\ pc = "exit" => exitCode = 1
    /\ retry.op = "getLogs" =>
          /\ NumLe(retry.arg.fromBlock, retry.arg.toBlock)
          /\ NumGe(retry.arg.fromBlock, Small(0))
    /\ \A b \in issued :
          NumLe(startBlock, b) /\ NumLe(b, endBlock) /\ NumGe(startBlock, Small(0))

\* an event scan with start above end has been rejected
C19_Witness ==
    /\ caller = "events"
    /\ NumGt(parseInt(options.start), parseInt(options.end))
    /\ pc = "exit"
    /\ exitCode = 1
    /\ rpcCalls = 0

\* a native scan with start above end has been rejected
C19_WitnessNative ==
    /\ caller = "fetch"
    /\ NumGt(parseInt(options.start), parseInt(options.end))
    /\ pc = "exit"
    /\ exitCode = 1
    /\ rpcCalls = 0



\* the invocation ended without a list of logs although getLogs was tried as
\* often as retryOperation allows: every attempt of getLogs failed
GetLogsFailedEveryAttempt ==
    /\ caller = "events"
    /\ pc = "exit"
    /\ logs = Null
    /\ rpcCalls >= DefaultMaxRetries

\* C20: in the event scan, when getLogs fails on every retry attempt the
\* whole scan is aborted with exit code 1: no log is processed, no event is
\* collected, no symbol() or decimals() call is made, and neither the CSV nor
\* the JSON is written.  While the failure is pending nothing has been
\* processed either.
C20_GetLogsFailureAborts ==
    /\ GetLogsFailedEveryAttempt =>
          /\ exitCode = 1
          /\ rpcCalls = DefaultMaxRetries
          /\ logPos = 0
          /\ transferEvents = <<>>
          /\ metaLog = <<>>
          /\ topTokens = <<>>
          /\ csv = Null
          /\ jsonSaved = Null
    /\ (caller = "events" /\ retry.op = "getLogs" /\ retry.phase = "thrown") =>
          /\ pc = "getLogs"
          /\ Len(retry.trace) > 0
          /\ AllThrew(Attempts(retry))
          /\ logPos = 0 /\ transferEvents = <<>> /\ csv = Null /\ jsonSaved = Null

\* an event scan with --json ended after three failed attempts of getLogs
C20_Witness ==
    /\ GetLogsFailedEveryAttempt
    /\ options.json
    /\ exitCode = 1
    /\ Len(chain.logs) > 0



(***************************************************************************)
(* Token metadata calls of the event scan                                  *)
(***************************************************************************)
\* the passes of the log loop that called symbol() and decimals() on contract c
MetadataCalls(c) == {j \in 1..Len(metaLog) : metaLog[j].contract = c}

\* C24 as stated: during one event scan symbol() is called at most once and
\* decimals() at most once for each contract address, however many logs the
\* contract emitted.
C24_MetadataOncePerContract ==
    caller = "events" =>
        \A j \in 1..Len(metaLog) : Cardinality(MetadataCalls(metaLog[j].contract)) <= 1



(***************************************************************************)
(* The aggregator of analyze on the rows in another order                  *)
(***************************************************************************)
\* the token loop and the address loop run over `rows` from empty statistics
RECURSIVE TokenStatsOf(_)
TokenStatsOf(rows) ==
    IF rows = <<>> THEN <<>>
    ELSE UpdateTokenStats(TokenStatsOf(SubSeq(rows, 1, Len(rows) - 1)), rows[Len(rows)])

RECURSIVE AddressStatsOf(_)
AddressStatsOf(rows) ==
    IF rows = <<>> THEN <<>>
    ELSE LET before == AddressStatsOf(SubSeq(rows, 1, Len(rows) - 1))
             row    == rows[Len(rows)]
         IN  UpdateReceiver(UpdateSender(before, row), row)

\* the statistics as a map: the entries without their insertion order
Entries(m) == {m[j] : j \in 1..Len(m)}

\* the count and volume of every token
TokenFigures(m) == {[key |-> e.key, count |-> e.count, volume |-> e.volume] : e \in Entries(m)}

\* the rows in the order f
Reordered(rows, f) == [k \in 1..Len(rows) |-> rows[f[k]]]

\* C25: aggregation does not depend on the order of the events.  When analyze
\* has gone through a file, the per-token count and volume and the per-address
\* sent, received, sentCount and receivedCount it holds are those the same
\* loops compute on every permutation of the rows.
C25_AggregationOrderIndependent ==
    (caller = "analyze" /\ pc = "exit" /\ exitCode = 0) =>
        \A f \in Orders(Len(data)) :
            /\ TokenFigures(TokenStatsOf(Reordered(data, f))) = TokenFigures(tokenStats)
            /\ Entries(AddressStatsOf(Reordered(data, f))) = Entries(addressStats)

\* three different rows were analysed, two of them of the same token and the
\* same sender with different values
C25_Witness ==
    /\ caller = "analyze" /\ pc = "exit" /\ exitCode = 0
    /\ Len(data) = 3
    /\ \A i, j \in 1..3 : i # j => data[i] # data[j]
    /\ \E i, j \in 1..3 :
          /\ i < j
          /\ TokenOf(data[i]) = TokenOf(data[j])
          /\ data[i].from = data[j].from
          /\ data[i].value # data[j].value
    /\ Len(tokenStats) = 2



(***************************************************************************)
(* The `history` command (balance-finder.ts)                               *)
(***************************************************************************)
\* the passes of the block loop the model follows: more than any range of the
\* inputs has blocks, so that only a loop that does not advance gets there
MaxVisits == 4

\* `block += interval`
blockPlus(b, step) == NumAdd(b, step)

\* the row pushed to balanceHistory
HistoryRow ==
    [block |-> block, timestamp |-> blockInfo.timestamp,
     balanceWei |-> balance.wei, nonce |-> retry.value.v, blockHash |-> blockInfo.hash]

\* validate the address and the three numbers, enter the loop
HistoryStart ==
    /\ pc = "start"
    /\ caller = "history"
    /\ LET s == parseInt(options.start)
           e == parseInt(options.end)
           n == parseInt(options.interval)
       IN  IF \/ ~isValidAddress(options.address)
              \/ ~isValidBlockNumber(s) \/ ~isValidBlockNumber(e) \/ ~isValidBlockNumber(n)
              \/ NumGt(s, e)
           THEN /\ Exit(1)
                /\ UNCHANGED <<startBlock, endBlock, interval, block>>
           ELSE /\ startBlock' = s
                /\ endBlock' = e
                /\ interval' = n
                /\ block' = s
                /\ pc' = "loop"
                /\ UNCHANGED exitCode
    /\ UNCHANGED <<chain, retryVars, searchVars, options, currentBlock, reported, saved,
                   minValueWei, batchBlock, blockPromises, ethTransfers, processedBlocks, csv,
                   issued, settleOrder, failedBlocks, faults, eventVars, analyzeVars, rerunVars, solidityVars,
                   blockInfo, balance, balanceHistory, visited>>

\* `block <= endBlock`: the body starts with the fetch of the block
HistoryLoop ==
    /\ pc = "loop"
    /\ NumLe(block, endBlock)
    /\ Len(visited) < MaxVisits
    /\ visited' = Append(visited, block)
    /\ retry' = retryOperation("getBlock", block, DefaultMaxRetries, DefaultDelay)
    /\ pc' = "blockInfo"
    /\ UNCHANGED <<chain, rpcCalls, searchVars, findVars, fetchVars, eventVars, analyzeVars,
                   rerunVars, solidityVars, interval, block, blockInfo, balance, balanceHistory>>

\* the block arrived (null for a block that is not there): ask the balance;
\* an error goes to the catch clause of the body
HistoryBlockInfo ==
    /\ pc = "blockInfo"
    /\ RetryDone(retry)
    /\ IF retry.phase = "returned"
       THEN /\ blockInfo' = retry.value
            /\ retry' = retryOperation("getBalance", [address |-> options.address, block |-> block],
                                       DefaultMaxRetries, DefaultDelay)
            /\ pc' = "balance"
       ELSE /\ retry' = NoRetry
            /\ pc' = "delay"
            /\ UNCHANGED blockInfo
    /\ UNCHANGED <<chain, rpcCalls, searchVars, findVars, fetchVars, eventVars, analyzeVars,
                   rerunVars, solidityVars, interval, block, balance, balanceHistory, visited>>

\* the balance arrived: ask the transaction count
HistoryBalance ==
    /\ pc = "balance"
    /\ RetryDone(retry)
    /\ IF retry.phase = "returned"
       THEN /\ balance' = retry.value
            /\ retry' = retryOperation("getTransactionCount",
                                       [address |-> options.address, block |-> block],
                                       DefaultMaxRetries, DefaultDelay)
            /\ pc' = "nonce"
       ELSE /\ retry' = NoRetry
            /\ pc' = "delay"
            /\ UNCHANGED balance
    /\ UNCHANGED <<chain, rpcCalls, searchVars, findVars, fetchVars, eventVars, analyzeVars,
                   rerunVars, solidityVars, interval, block, blockInfo, balanceHistory, visited>>

\* the transaction count arrived: push the row; `blockInfo!.timestamp` of a
\* null block throws and the catch clause of the body goes on with the loop
HistoryNonce ==
    /\ pc = "nonce"
    /\ RetryDone(retry)
    /\ balanceHistory' =
          IF retry.phase = "returned" /\ blockInfo # Null
          THEN Append(balanceHistory, HistoryRow)
          ELSE balanceHistory
    /\ retry' = NoRetry
    /\ pc' = "delay"
    /\ UNCHANGED <<chain, rpcCalls, searchVars, findVars, fetchVars, eventVars, analyzeVars,
                   rerunVars, solidityVars, interval, block, blockInfo, balance, visited>>

\* the delay at the end of the body, then `block += interval`
HistoryDelay ==
    /\ pc = "delay"
    /\ block' = blockPlus(block, interval)
    /\ blockInfo' = Null
    /\ balance' = Null
    /\ pc' = "loop"
    /\ UNCHANGED <<chain, retryVars, searchVars, findVars, fetchVars, eventVars, analyzeVars,
                   rerunVars, solidityVars, interval, balanceHistory, visited>>

\* the loop is over: the history is saved as CSV
HistoryFinish ==
    /\ pc = "loop"
    /\ ~NumLe(block, endBlock)
    /\ csv' = [kind |-> "csv", rows |-> balanceHistory]
    /\ Exit(0)
    /\ UNCHANGED <<chain, retryVars, searchVars, options, currentBlock, reported, saved,
                   startBlock, endBlock, minValueWei, batchBlock, blockPromises, ethTransfers,
                   processedBlocks, issued, settleOrder, failedBlocks, faults, eventVars,
                   analyzeVars, rerunVars, historyVars, solidityVars>>

(***************************************************************************)
(* Inputs of history                                                       *)
(***************************************************************************)
MaxHistoryBlock == 2

\* two blocks, so that the last block of the largest range is not there
HistoryChain ==
    [head |-> Small(1), segs |-> <<[start |-> Small(0), ts |-> Small(ExampleTimestamp)]>>]

HistoryBlockStrings ==
    {IntChars(n) : n \in 0..MaxHistoryBlock} \cup {<<"a", "b", "c">>, <<"-", "1">>}

\* values of --interval (100 when the option is not given)
IntervalStrings ==
    {<<"1", "0", "0">>, <<"0">>, <<"1">>, <<"2">>, <<"-", "1">>, <<"a", "b", "c">>}

HistoryOptions ==
    [address : {Addr(Vitalik, "checksum"), Addr("123", "lower")},
     start : HistoryBlockStrings, end : HistoryBlockStrings, interval : IntervalStrings]

InitHistory ==
    /\ chain = HistoryChain
    /\ options \in HistoryOptions
    /\ pc = "start"
    /\ caller = "history"
    /\ retry = NoRetry
    /\ rpcCalls = 0
    /\ targetTimestamp = NaN
    /\ range = [low |-> Small(0), high |-> Small(0)]
    /\ low = Small(0)
    /\ high = Small(0)
    /\ mid = Small(0)
    /\ result = Null
    /\ iterations = 0
    /\ probes = 0
    /\ searchError = FALSE
    /\ currentBlock = Null
    /\ reported = Null
    /\ saved = Null
    /\ exitCode = -1
    /\ FetchIdle
    /\ OtherIdle

NextHistory ==
    \/ HistoryStart
    \/ HistoryLoop
    \/ RetryAttempt
    \/ RetrySleep
    \/ HistoryBlockInfo
    \/ HistoryBalance
    \/ HistoryNonce
    \/ HistoryDelay
    \/ HistoryFinish

\* every step that can be taken is taken: requests are answered or fail,
\* sleeps and delays end
SpecHistory == InitHistory /\ [][NextHistory]_vars /\ WF_vars(NextHistory)

(***************************************************************************)
(* Properties of history                                                   *)
(***************************************************************************)
\* the input passed the validation of the command
HistoryAccepted == caller = "history" /\ pc # "start" /\ ~(pc = "exit" /\ exitCode = 1)

\* C28 as stated: for every input accepted by the validation, the block loop
\* terminates, and it has then visited exactly start, start + interval,
\* start + 2 * interval, ... up to end (the blocks are visited in that order
\* while the loop runs, each pass moving on to a higher block).
C28_HistoryLoopTerminates ==
    /\ <>(pc = "exit")
    /\ [][pc = "delay" => NumGt(block', block)]_vars
    /\ [](HistoryAccepted =>
            \A k \in 1..Len(visited) :
                /\ visited[k] = NumAdd(startBlock, NumTimes(interval, k - 1))
                /\ NumLe(visited[k], endBlock))
    /\ []((HistoryAccepted /\ pc = "exit") =>
            /\ visited # <<>>
            /\ NumGt(NumAdd(visited[Len(visited)], interval), endBlock))



(***************************************************************************)
(* The `recent` command of transfer-events.ts                              *)
(***************************************************************************)
\* `currentBlock.number - blockCount + 1`
RecentStartBlock(number, blockCount) == NumAdd(NumSub(number, blockCount), Small(1))

\* the filter of the command: the range, the Transfer signature, the contract
RecentFilter(opts, fromBlock, toBlock) ==
    [fromBlock |-> fromBlock,
     toBlock   |-> toBlock,
     address   |-> opts.contract,
     topics    |-> <<TransferTopic>>]

\* parse and validate the number of blocks, ask for the latest block
RecentStart ==
    /\ pc = "start"
    /\ caller = "recent"
    /\ LET blockCount == parseInt(options.blocks) IN
       IF ~isValidBlockNumber(blockCount) \/ NumLe(blockCount, Small(0))
       THEN /\ Exit(1)
            /\ UNCHANGED retry
       ELSE /\ retry' = retryOperation("getLatest", Null, DefaultMaxRetries, DefaultDelay)
            /\ pc' = "recentLatest"
            /\ UNCHANGED exitCode
    /\ UNCHANGED <<chain, rpcCalls, searchVars, options, currentBlock, reported, saved, fetchVars,
                   otherVars>>

\* the latest block arrived (or not): compute the range, start getLogs
RecentLatest ==
    /\ pc = "recentLatest"
    /\ RetryDone(retry)
    /\ IF RetryGaveValue(retry)
       THEN /\ currentBlock' = retry.value
            /\ startBlock' = RecentStartBlock(retry.value.number, parseInt(options.blocks))
            /\ endBlock' = retry.value.number
            /\ retry' = retryOperation("getLogs", RecentFilter(options, startBlock', endBlock'),
                                       DefaultMaxRetries, DefaultDelay)
            /\ pc' = "recentLogs"
            /\ UNCHANGED exitCode
       ELSE /\ Exit(1)
            /\ retry' = NoRetry
            /\ UNCHANGED <<currentBlock, startBlock, endBlock>>
    /\ UNCHANGED <<chain, rpcCalls, searchVars, options, reported, saved, minValueWei, batchBlock,
                   blockPromises, ethTransfers, processedBlocks, csv, issued, settleOrder,
                   failedBlocks, faults, otherVars>>

\* getLogs settled: its error ends the command, an empty list too
RecentLogs ==
    /\ pc = "recentLogs"
    /\ RetryDone(retry)
    /\ IF retry.phase = "returned"
       THEN /\ logs' = retry.value
            /\ IF Len(logs'.list) = 0
               THEN Exit(0)
               ELSE pc' = "recentLoop" /\ UNCHANGED exitCode
       ELSE EventsCatch
    /\ retry' = NoRetry
    /\ UNCHANGED <<chain, rpcCalls, searchVars, options, currentBlock, reported, saved, fetchVars,
                   logPos, transferEvents, metaLog, topTokens, jsonSaved, analyzeVars, rerunVars,
                   historyVars, solidityVars>>

\* one pass of `for (const log of logs)`: no token metadata is asked for
RecentProcessLog ==
    /\ pc = "recentLoop"
    /\ logPos < Len(logs.list)
    /\ LET log == logs.list[logPos + 1] IN
       transferEvents' =
          IF TooFewTopics(log) \/ EmptyData(log) \/ BigIntThrows(log.data)
          THEN transferEvents
          ELSE Append(transferEvents, DecodeLog(log, [symbol |-> "UNKNOWN", decimals |-> 18]))
    /\ logPos' = logPos + 1
    /\ UNCHANGED <<pc, chain, retryVars, searchVars, findVars, fetchVars, logs, metaLog, topTokens,
                   jsonSaved, analyzeVars, rerunVars, historyVars, solidityVars>>

\* after the loop: the CSV, the JSON
RecentFinish ==
    /\ pc = "recentLoop"
    /\ logPos = Len(logs.list)
    /\ csv' = [kind |-> "csv", rows |-> EventCsvRows(transferEvents)]
    /\ jsonSaved' = IF options.json THEN transferEvents ELSE Null
    /\ Exit(0)
    /\ UNCHANGED <<chain, retryVars, searchVars, options, currentBlock, reported, saved,
                   startBlock, endBlock, minValueWei, batchBlock, blockPromises, ethTransfers,
                   processedBlocks, issued, settleOrder, failedBlocks, faults,
                   logs, logPos, transferEvents, metaLog, topTokens, analyzeVars, rerunVars,
                   historyVars, solidityVars>>

\* values of --blocks: up to two more than the chain has blocks
BlockCountStrings ==
    {IntChars(n) : n \in 0..(MaxScanBlock + 2)} \cup {<<"a", "b", "c">>, <<"-", "1">>}

RecentOptions ==
    [blocks : BlockCountStrings, contract : {NoAddress, Addr(Usdc, "lower")}, json : BOOLEAN]

InitRecent ==
    /\ chain \in EventChains
    /\ options \in RecentOptions
    /\ pc = "start"
    /\ caller = "recent"
    /\ retry = NoRetry
    /\ rpcCalls = 0
    /\ targetTimestamp = NaN
    /\ range = [low |-> Small(0), high |-> Small(0)]
    /\ low = Small(0)
    /\ high = Small(0)
    /\ mid = Small(0)
    /\ result = Null
    /\ iterations = 0
    /\ probes = 0
    /\ searchError = FALSE
    /\ currentBlock = Null
    /\ reported = Null
    /\ saved = Null
    /\ exitCode = -1
    /\ FetchIdle
    /\ OtherIdle

NextRecent ==
    \/ RecentStart
    \/ RetryAttempt
    \/ RetrySleep
    \/ RecentLatest
    \/ RecentLogs
    \/ RecentProcessLog
    \/ RecentFinish

SpecRecent == InitRecent /\ [][NextRecent]_vars

\* C29 as stated: for every accepted block count N >= 1 and every chain head
\* h, the getLogs filter of `recent` has 0 <= fromBlock <= toBlock = h, also
\* when N > h + 1.
C29_RecentRangeNonNegative ==
    (caller = "recent" /\ retry.op = "getLogs") =>
        /\ NumLe(Small(0), retry.arg.fromBlock)
        /\ NumLe(retry.arg.fromBlock, retry.arg.toBlock)
        /\ retry.arg.toBlock = chain.head



(***************************************************************************)
(* findBlockAfterTimestamp of the Solidity script (AdvancedBlockFinder)    *)
(***************************************************************************)
\* the call was reverted: Solidity 0.8 checks uint256 arithmetic
Reverted == [kind |-> "revert", panic |-> "0x11"]

\* the loop of findBlockAfterTimestamp from the state (low, high, result,
\* iterations), with getBlockTimestamp giving the timestamp of the chain
RECURSIVE findBlockAfterTimestamp(_, _, _, _, _, _)
findBlockAfterTimestamp(c, target, lo, hi, res, its) ==
    IF NumLe(lo, hi) /\ its < maxIterations
    THEN LET m == FloorHalf(NumAdd(lo, hi)) IN
         IF NumLt(TimestampOf(c, m), target)
         THEN findBlockAfterTimestamp(c, target, NumAdd(m, Small(1)), hi, res, its + 1)
         ELSE IF m = Small(0)
              THEN Reverted
              ELSE findBlockAfterTimestamp(c, target, lo, NumSub(m, Small(1)), m, its + 1)
    ELSE [kind |-> "returned", value |-> res]

\* the arguments are uint256 values
IsUint(a) == ~IsNaN(a) /\ NumGe(a, Small(0))

\* the script runs its search on the chain, target and range of the
\* TypeScript call, once that call has returned
SolidityRun ==
    /\ resultBlock = Null
    /\ SearchReturned
    /\ IsUint(range.low) /\ IsUint(range.high)
    /\ resultBlock' = findBlockAfterTimestamp(chain, targetTimestamp, range.low, range.high,
                                              Small(0), 0)
    /\ UNCHANGED <<pc, chain, retryVars, searchVars, findVars, fetchVars, eventVars, analyzeVars,
                   rerunVars, historyVars>>

NextBoth ==
    \/ Next
    \/ SolidityRun

\* findBlockByTimestamp and findBlockAfterTimestamp called with the same
\* arguments on the same chain
SpecBoth == Init /\ [][NextBoth]_vars

\* C30 as stated: for the same chain, target and range, when both searches
\* have run (every timestamp fetched), Solidity has completed without
\* reverting and returns the number of the block TypeScript returns, and 0
\* exactly when TypeScript returns null.
C30_SolidityAgreesWithTypeScript ==
    (SearchReturned /\ ~searchError /\ resultBlock # Null) =>
        /\ resultBlock.kind = "returned"
        /\ result = Null <=> resultBlock.value = Small(0)
        /\ result # Null => resultBlock.value = result.number


====
